---- MODULE Spec2Model ----
(***************************************************************************)
(* Anonymous relay bot: the relay / moderation core of src/gog.py and      *)
(* src/bot.py.  One model for the two variants: the variable `variant`     *)
(* says which program runs; it never changes.                              *)
(*                                                                         *)
(* Concurrency that is modelled:                                           *)
(*   - telebot runs message handlers on a pool of worker threads, so two   *)
(*     relay invocations interleave between their shared-state operations  *)
(*     (one database statement/transaction, one dict/list/queue operation  *)
(*     under the GIL = one atomic step);                                   *)
(*   - gog.py starts one thread per armed album timer (process_activation, *)
(*     process_recovery, process_album);                                   *)
(*   - one broadcast_worker thread drains broadcast_queue;                 *)
(*   - the handlers of /start, of the username a user is asked for and of  *)
(*     the moderator's commands run on the same pool of handler threads.   *)
(***************************************************************************)
EXTENDS Integers, Sequences, FiniteSets, TLC

\* ------------------------------------------------------------------ bounds
MaxMsgs == 2          \* inbound messages handled in one behaviour
TickStep == 61        \* seconds per clock advance; the clock advances once
MaxInitJobs == 2      \* jobs waiting in the queue of the fan-out specification

\* ------------------------------------------------------- program constants
ADMIN_ID == 1
ACTIVATION == 12      \* media needed to activate / reactivate
WINDOW == 60          \* inactivity window, seconds
CHUNK == 10           \* transport limit of one media batch

UserIds == {1, 2, 3}
Senders == {1, 2}                \* the users whose messages relay is handed
Threads == {"t1", "t2"}          \* telebot's handler pool
Gids == UserIds \X {1}            \* media_group_id values: <<sender, n>>
NoGid == <<0, 0>>                \* message.media_group_id is None
NULL == -1                       \* SQL NULL of last_media
NoName == <<>>                   \* SQL NULL of username
Adm == <<"a", "d", "m">>          \* stored usernames: sequences of characters
Ann == <<"a", "n", "n">>

\* ------------------------------------------------------------------- text
\* A text is a sequence of characters; lower() is modelled on the alphabet used.
Lower(c) == IF c = "S" THEN "s" ELSE IF c = "P" THEN "p" ELSE IF c = "B" THEN "b" ELSE c

lower(s) == [i \in 1..Len(s) |-> Lower(s[i])]

\* Python's `word in text`
IsSubstring(w, s) ==
    \E i \in 0..(Len(s) - Len(w)) : \A j \in 1..Len(w) : s[i + j] = w[j]

Texts == { <<"o", "k">>, <<"a", "S", "p">> }
BadWord == <<"s", "p">>

\* ------------------------------------------------------------------ state
VARIABLES
    variant,          \* "gog" or "bot": which source file is running
    now,              \* int(time.time())
    users,            \* table users: user_id -> row
    banned_words,     \* table banned_words
    message_map,      \* table message_map: set of rows, bot_message_id is the key
    media_groups,     \* defaultdict(list): gid -> buffered messages
    album_timers,     \* gog.py: dict of armed gids
    broadcast_queue,  \* Queue of jobs
    handlers,         \* relay invocations, one per pool thread
    flushers,         \* gog.py: the threads started for armed timers
    workers,          \* the broadcast_worker threads (one is started)
    received,         \* inbound messages so far
    next_sent,        \* the transport's next outbound message id
    activated_sent,   \* user -> number of "account is now activated" notices sent
    settings,         \* table settings: key -> value
    waiting_username, \* set of chats asked for a username
    history           \* history variable: jobs put, jobs taken, sends made, jobs
                      \* finished, deletions asked of the transport

vars == << variant, now, users, banned_words, message_map, media_groups,
           album_timers, broadcast_queue, handlers, flushers, workers, received,
           next_sent, activated_sent, settings, waiting_username, history >>

dbVars == << users, banned_words, message_map >>
aggVars == << media_groups, album_timers, flushers >>
clockVars == << now >>
regVars == << settings, waiting_username >>

\* ------------------------------------------------------------ the store
Row(name, b, a, s, w, c, lm) ==
    [ username |-> name, banned |-> b, auto_banned |-> a, shadow_banned |-> s,
      whitelisted |-> w, media_count |-> c, last_media |-> lm ]

user_exists(us, u) == u \in DOMAIN us

\* mutant: the whitelist overrides the manual ban
is_banned_unless_whitelisted(us, u) ==
    u \in DOMAIN us /\ us[u].banned /\ ~us[u].whitelisted

is_banned(us, u) == u \in DOMAIN us /\ us[u].banned

is_whitelisted(us, u) == u \in DOMAIN us /\ us[u].whitelisted

\* mutant: the query copied from is_auto_banned with the column left as it was
is_shadow_wrong_column(us, u) == u \in DOMAIN us /\ us[u].auto_banned

is_shadow(us, u) == u \in DOMAIN us /\ us[u].shadow_banned

is_auto_banned(us, u) == u \in DOMAIN us /\ us[u].auto_banned

get_username(us, u) == IF u \in DOMAIN us THEN us[u].username ELSE NoName

\* mutant: shadow-banned users are left out as well
get_all_users_unshadowed(us) ==
    { u \in DOMAIN us : ~us[u].banned /\ ~us[u].auto_banned /\ ~us[u].shadow_banned }

\* SELECT user_id FROM users WHERE banned=FALSE AND auto_banned=FALSE
get_all_users(us) == { u \in DOMAIN us : ~us[u].banned /\ ~us[u].auto_banned }

\* mutant: the amount is ignored, every call counts one item
update_media_activity_one(us, u, amount, t) ==
    LET count == us[u].media_count + 1
        added == [us EXCEPT ![u].last_media = t, ![u].media_count = count]
    IN  IF count < ACTIVATION
        THEN [ users |-> added, status |-> "progress", remaining |-> ACTIVATION - count ]
        ELSE IF us[u].auto_banned
        THEN [ users |-> [added EXCEPT ![u].auto_banned = FALSE,
                                       ![u].media_count = ACTIVATION],
               status |-> "reactivated", remaining |-> 0 ]
        ELSE [ users |-> added, status |-> "active", remaining |-> 0 ]

\* mutant: the recovery branch is missing, the auto-ban is never cleared
update_media_activity_no_recovery(us, u, amount, t) ==
    LET count == us[u].media_count + amount
        added == [us EXCEPT ![u].last_media = t, ![u].media_count = count]
    IN  IF count < ACTIVATION
        THEN [ users |-> added, status |-> "progress", remaining |-> ACTIVATION - count ]
        ELSE [ users |-> added, status |-> "active", remaining |-> 0 ]

\* mutant: a reactivated user starts counting from 0 again
update_media_activity_restart(us, u, amount, t) ==
    LET count == us[u].media_count + amount
        added == [us EXCEPT ![u].last_media = t, ![u].media_count = count]
    IN  IF count < ACTIVATION
        THEN [ users |-> added, status |-> "progress", remaining |-> ACTIVATION - count ]
        ELSE IF us[u].auto_banned
        THEN [ users |-> [added EXCEPT ![u].auto_banned = FALSE,
                                       ![u].media_count = 0],
               status |-> "reactivated", remaining |-> 0 ]
        ELSE [ users |-> added, status |-> "active", remaining |-> 0 ]

\* gog.py: one transaction; the result is (status, remaining).
\* Only called for a user whose row exists.
update_media_activity(us, u, amount, t) ==
    LET count == us[u].media_count + amount
        added == [us EXCEPT ![u].last_media = t, ![u].media_count = count]
    IN  IF count < ACTIVATION
        THEN [ users |-> added, status |-> "progress", remaining |-> ACTIVATION - count ]
        ELSE IF us[u].auto_banned
        THEN [ users |-> [added EXCEPT ![u].auto_banned = FALSE,
                                       ![u].media_count = ACTIVATION],
               status |-> "reactivated", remaining |-> 0 ]
        ELSE [ users |-> added, status |-> "active", remaining |-> 0 ]

\* bot.py: UPDATE ... WHERE user_id = u (no row: nothing happens)
update_media_activity_bot(us, u, t) ==
    IF u \in DOMAIN us
    THEN [us EXCEPT ![u].last_media = t,
                    ![u].media_count = us[u].media_count + 1,
                    ![u].auto_banned = FALSE]
    ELSE us

\* mutant: the sweep of bot.py, without the whitelist and moderator exceptions
check_inactive_users_all(us, t) ==
    [ u \in DOMAIN us |->
        IF /\ (us[u].last_media = NULL \/ us[u].last_media < t - WINDOW)
           /\ ~us[u].banned
        THEN [us[u] EXCEPT !.auto_banned = TRUE]
        ELSE us[u] ]

\* mutant: the sweep without `AND banned=FALSE`
check_inactive_users_banned_too(us, t) ==
    [ u \in DOMAIN us |->
        IF /\ (us[u].last_media = NULL \/ us[u].last_media < t - WINDOW)
           /\ ~us[u].whitelisted
           /\ u # ADMIN_ID
        THEN [us[u] EXCEPT !.auto_banned = TRUE]
        ELSE us[u] ]

\* mutant: the sweep also takes the count back to 0
check_inactive_users_reset(us, t) ==
    [ u \in DOMAIN us |->
        IF /\ (us[u].last_media = NULL \/ us[u].last_media < t - WINDOW)
           /\ ~us[u].banned
           /\ ~us[u].whitelisted
           /\ u # ADMIN_ID
        THEN [us[u] EXCEPT !.auto_banned = TRUE, !.media_count = 0]
        ELSE us[u] ]

\* gog.py: the inactivity sweep at time t
check_inactive_users(us, t) ==
    [ u \in DOMAIN us |->
        IF /\ (us[u].last_media = NULL \/ us[u].last_media < t - WINDOW)
           /\ ~us[u].banned
           /\ ~us[u].whitelisted
           /\ u # ADMIN_ID
        THEN [us[u] EXCEPT !.auto_banned = TRUE]
        ELSE us[u] ]

\* bot.py: the inactivity sweep at time t (NULL < limit is not true in SQL)
check_inactive_users_bot(us, t) ==
    [ u \in DOMAIN us |->
        IF /\ us[u].last_media # NULL
           /\ us[u].last_media < t - WINDOW
           /\ ~us[u].banned
        THEN [us[u] EXCEPT !.auto_banned = TRUE]
        ELSE us[u] ]

\* mutant: the text is not lower-cased before the search
contains_banned_word_as_typed(words, text) ==
    \E w \in words : IsSubstring(w, text)

contains_banned_word(words, text) ==
    \E w \in words : IsSubstring(w, lower(text))

\* mutant: origin and receiver stored the wrong way round
save_message_map_swapped(mm, bot_msg_id, original_user_id, receiver_id) ==
    IF \E r \in mm : r.bot_message_id = bot_msg_id
    THEN mm
    ELSE mm \cup { [ bot_message_id |-> bot_msg_id,
                     original_user_id |-> receiver_id,
                     receiver_id |-> original_user_id ] }

\* mutant: ON CONFLICT (bot_message_id) DO UPDATE
save_message_map_upsert(mm, bot_msg_id, original_user_id, receiver_id) ==
    { r \in mm : r.bot_message_id # bot_msg_id }
    \cup { [ bot_message_id |-> bot_msg_id,
             original_user_id |-> original_user_id,
             receiver_id |-> receiver_id ] }

\* INSERT ... ON CONFLICT DO NOTHING, bot_message_id is the primary key
save_message_map(mm, bot_msg_id, original_user_id, receiver_id) ==
    IF \E r \in mm : r.bot_message_id = bot_msg_id
    THEN mm
    ELSE mm \cup { [ bot_message_id |-> bot_msg_id,
                     original_user_id |-> original_user_id,
                     receiver_id |-> receiver_id ] }

build_prefix(us, u) ==
    IF get_username(us, u) # NoName THEN <<"#">> \o get_username(us, u) ELSE <<"Unknown">>


\* --------------------------------------------------------------- messages
Msg(id, u, ctype, gid, text) ==
    [ id |-> id, user |-> u, content_type |-> ctype, media_group_id |-> gid,
      text |-> text, reply_to |-> 0 ]

NoMsg == Msg(0, 0, "none", NoGid, <<>>)

IsMedia(m) == m.content_type \in {"photo", "video"}

\* What relay can be handed by one user: a text, a single photo, or a photo
\* that is part of an album of that user (relay treats a video like a photo).
Inbound(id, u) ==
    { Msg(id, u, "text", NoGid, t) : t \in Texts }
    \cup { Msg(id, u, "photo", NoGid, <<>>) }
    \cup { Msg(id, u, "photo", g, <<>>) : g \in {h \in Gids : h[1] = u} }

\* ------------------------------------------------- threads' local state
Idle == [ pc |-> "idle", msg |-> NoMsg, count |-> 0, auto_banned |-> FALSE,
          kind |-> "", album |-> <<>>, outcome |-> "", remaining |-> 0 ]

\* a relay invocation that has returned (or raised): its locals are gone
Done(h, outcome, remaining) ==
    [ pc |-> "done", msg |-> h.msg, count |-> 0, auto_banned |-> FALSE,
      kind |-> "", album |-> <<>>, outcome |-> outcome, remaining |-> remaining ]

At(h, pc) == [h EXCEPT !.pc = pc]

Flusher(kind, gid, u, by) ==
    [ kind |-> kind, gid |-> gid, user |-> u, by |-> by, pc |-> "sleep",
      album |-> <<>>, outcome |-> "", remaining |-> 0 ]

\* a timer thread that has returned; album is what it popped
Ended(f, outcome, remaining) ==
    [f EXCEPT !.pc = "done", !.outcome = outcome, !.remaining = remaining]

NoJob == [ type |-> "none", messages |-> <<>> ]
Single(m) == [ type |-> "single", messages |-> <<m>> ]
Album(ms) == [ type |-> "album", messages |-> ms ]

\* seq: the position of the job among the jobs taken from the queue
WorkerIdle == [ pc |-> "idle", job |-> NoJob, seq |-> 0, todo |-> <<>>,
                attempted |-> {}, delivered |-> {}, before |-> {} ]

\* mutant: the start line is there twice
WorkerThreads_two == {"w1", "w2"}

\* threading.Thread(target=broadcast_worker, daemon=True).start(): once
WorkerThreads == {"w1"}

\* init_db on the settings table the store holds:
\* INSERT ... VALUES ('join_open','true') ON CONFLICT (key) DO NOTHING
NoSettings == << >>

init_db(st) == IF "join_open" \in DOMAIN st THEN st ELSE ("join_open" :> "true")

\* ------------------------------------------------------------------- Init
StartNow == 62

\* The store outlives the process: the program starts on whatever rows earlier
\* runs left.  User 1 is the moderator; user 2 is drawn from every combination
\* of flags; user 3 is an ordinary active user, a whitelisted user who never
\* sent media, or a manually banned user who sent media long ago.
InitCounts == {ACTIVATION - 1, ACTIVATION}
InitStamps == {0, StartNow}

Table(r1, r2, r3) == (1 :> r1) @@ (2 :> r2) @@ (3 :> r3)

Active(name, lm) == Row(name, FALSE, FALSE, FALSE, FALSE, ACTIVATION, lm)

InitUsers ==
    { Table(Active(Adm, StartNow), Row(Ann, b, a, s, w, c, lm2), Active(NoName, StartNow)) :
        b \in BOOLEAN, a \in BOOLEAN, s \in BOOLEAN, w \in BOOLEAN,
        c \in InitCounts, lm2 \in InitStamps }
    \cup
    { Table(Active(Adm, 0), Active(Ann, lm2), Active(NoName, StartNow)) :
        lm2 \in InitStamps }
    \cup
    { Table(Active(Adm, StartNow), Active(Ann, lm2),
            Row(NoName, FALSE, FALSE, FALSE, TRUE, 0, NULL)) :
        lm2 \in InitStamps }
    \cup
    { Table(Active(Adm, StartNow), Active(Ann, lm2),
            Row(NoName, TRUE, FALSE, FALSE, FALSE, ACTIVATION, 0)) :
        lm2 \in InitStamps }

\* the process as it starts: the module globals, the threads, the clock
InitThreads ==
    /\ variant \in {"gog", "bot"}
    /\ now = StartNow
    /\ banned_words = {BadWord}
    /\ media_groups = [g \in Gids |-> <<>>]
    /\ album_timers = {}
    /\ handlers = [t \in Threads |-> Idle]
    /\ flushers = {}
    /\ workers = [th \in WorkerThreads |-> WorkerIdle]
    /\ waiting_username = {}
    /\ received = 0
    /\ next_sent = 1
    /\ activated_sent = [u \in UserIds |-> 0]

\* everything but the users table, the settings and the queue
InitProcess ==
    /\ InitThreads
    /\ message_map = {}

\* nothing has been put or taken but what the queue holds at the start
InitHistory ==
    history = [ put |-> broadcast_queue, got |-> <<>>, sent |-> <<>>, done |-> 0,
                deleted |-> <<>> ]

InitCommon ==
    /\ InitProcess
    /\ settings = init_db(NoSettings)
    /\ users \in InitUsers
    /\ (variant = "bot" => \A u \in DOMAIN users : ~users[u].whitelisted)

Init ==
    /\ InitCommon
    /\ broadcast_queue = <<>>
    /\ InitHistory


\* ------------------------------------------------------------------ clock
Tick ==
    /\ now < StartNow + TickStep
    /\ now' = now + TickStep
    /\ UNCHANGED << variant, history, regVars, dbVars, aggVars, broadcast_queue, handlers, workers,
                    received, next_sent, activated_sent >>

\* ------------------------------------------------------ history variable
\* What the queue was given and what the worker did with it, in order.
Put(hist, job) == [hist EXCEPT !.put = Append(@, job)]

Got(hist, job) == [hist EXCEPT !.got = Append(@, job)]

Sent(hist, w, s) ==
    [hist EXCEPT !.sent = Append(@, [ job |-> w.seq, to |-> s.to, chunk |-> s.chunk ])]

\* the fan-out of a job has returned when nothing of it is left to send
Returned(hist, w) == IF w.todo = <<>> THEN [hist EXCEPT !.done = @ + 1] ELSE hist

\* one command's bot.delete_message calls: those made, and those that did not raise
Deleted(hist, rows, ok) ==
    [hist EXCEPT !.deleted = Append(@, [ tried |-> rows, ok |-> ok ])]

\* ------------------------------------------------------- relay, dispatch
\* telebot hands a message that matches relay's filter to a free pool thread.
FreeThreads == { t \in Threads : handlers[t].pc \in {"idle", "done"} }

Set(t, h) == handlers' = [handlers EXCEPT ![t] = h]

NoticeActivated(u) == [activated_sent EXCEPT ![u] = @ + 1]

\* ------------------------------------------- relay: the manual-ban check
\* mutant: the inactivity sweep is run before the ban is looked at
relay_banned_after_sweep(t, m) ==
    LET h == [Idle EXCEPT !.msg = m] IN
    /\ t \in FreeThreads
    /\ t = CHOOSE x \in FreeThreads : TRUE
    /\ received' = received + 1
    /\ users' = IF variant = "gog" THEN check_inactive_users(users, now)
                                   ELSE check_inactive_users_bot(users, now)
    /\ IF is_banned(users, m.user)
       THEN Set(t, Done(h, "banned", 0))
       ELSE Set(t, At(h, IF variant = "gog" THEN "row" ELSE "auto"))
    /\ UNCHANGED << variant, history, regVars, clockVars, banned_words, message_map,
                    aggVars, broadcast_queue, workers, next_sent, activated_sent >>

\* relay(message) starts on a free thread:
\* if is_banned(user_id): send "You are banned."; return
relay_banned(t, m) ==
    LET h == [Idle EXCEPT !.msg = m] IN
    /\ t \in FreeThreads
    /\ t = CHOOSE x \in FreeThreads : TRUE
    /\ received' = received + 1
    /\ IF is_banned(users, m.user)
       THEN Set(t, Done(h, "banned", 0))
       ELSE Set(t, At(h, IF variant = "gog" THEN "row" ELSE "auto"))
    /\ UNCHANGED << variant, history, regVars, clockVars, dbVars, aggVars, broadcast_queue, workers,
                    next_sent, activated_sent >>

\* ---------------------------------- gog.py relay: activation / recovery
\* Lines 720-738 and the branch taken on the values read: is_whitelisted, the
\* SELECT of (media_count, auto_banned), then `count < 12 and not auto_banned`.
\* For a whitelisted user or the moderator the SELECT is skipped, `count` is
\* never bound and line 738 raises UnboundLocalError.
\* mutant: the activation branch only holds back texts and albums
gog_branch_media_through(count, auto_banned, m) ==
    IF count < ACTIVATION /\ ~auto_banned
    THEN IF m.media_group_id # NoGid THEN <<"append", "activation">>
         ELSE IF IsMedia(m) THEN <<"shadow", "">>
         ELSE <<"notice", "activation">>
    ELSE IF auto_banned
    THEN IF m.media_group_id # NoGid THEN <<"append", "recovery">>
         ELSE IF IsMedia(m) THEN <<"count_media", "recovery">>
         ELSE <<"notice", "recovery">>
    ELSE <<"shadow", "">>

\* mutant: the recovery branch has no text case, a text falls through
gog_branch_text_through(count, auto_banned, m) ==
    IF count < ACTIVATION /\ ~auto_banned
    THEN IF m.media_group_id # NoGid THEN <<"append", "activation">>
         ELSE IF IsMedia(m) THEN <<"count_media", "activation">>
         ELSE <<"notice", "activation">>
    ELSE IF auto_banned /\ IsMedia(m)
    THEN IF m.media_group_id # NoGid THEN <<"append", "recovery">>
         ELSE <<"count_media", "recovery">>
    ELSE <<"shadow", "">>

gog_branch(count, auto_banned, m) ==
    IF count < ACTIVATION /\ ~auto_banned
    THEN IF m.media_group_id # NoGid THEN <<"append", "activation">>
         ELSE IF IsMedia(m) THEN <<"count_media", "activation">>
         ELSE <<"notice", "activation">>
    ELSE IF auto_banned
    THEN IF m.media_group_id # NoGid THEN <<"append", "recovery">>
         ELSE IF IsMedia(m) THEN <<"count_media", "recovery">>
         ELSE <<"notice", "recovery">>
    ELSE <<"shadow", "">>

gog_row(t) ==
    LET h == handlers[t]
        u == h.msg.user
    IN
    /\ variant = "gog"
    /\ h.pc = "row"
    /\ IF is_whitelisted(users, u) \/ u = ADMIN_ID
       THEN Set(t, Done(h, "error", 0))
       ELSE IF ~user_exists(users, u)
       THEN Set(t, Done(h, "none", 0))
       ELSE LET br == gog_branch(users[u].media_count, users[u].auto_banned, h.msg)
            IN  IF br[1] = "notice"
                THEN Set(t, Done(h, IF br[2] = "activation" THEN "pending"
                                                           ELSE "inactive", 0))
                ELSE Set(t, [h EXCEPT !.pc = br[1], !.kind = br[2],
                                      !.count = users[u].media_count,
                                      !.auto_banned = users[u].auto_banned])
    /\ UNCHANGED << variant, history, regVars, clockVars, dbVars, aggVars, broadcast_queue, workers,
                    received, next_sent, activated_sent >>

\* What the caller reports after update_media_activity, lines 782-793 / 851-862
\* and 759-773 / 828-842.
report(kind, res) ==
    IF kind = "activation"
    THEN IF res.remaining > 0 THEN "progress" ELSE "activated"
    ELSE IF res.status = "reactivated" THEN "reactivated"
    ELSE IF res.remaining > 0 THEN "progress"
    ELSE "silent"

\* single photo / video of a user who is not activated or is auto-banned
gog_count_media(t) ==
    LET h == handlers[t]
        u == h.msg.user
        res == update_media_activity(users, u, 1, now)
        out == report(h.kind, res)
    IN
    /\ variant = "gog"
    /\ h.pc = "count_media"
    /\ users' = res.users
    /\ Set(t, Done(h, out, res.remaining))
    /\ activated_sent' = IF out = "activated" THEN NoticeActivated(u)
                         ELSE activated_sent
    /\ UNCHANGED << variant, history, regVars, clockVars, banned_words, message_map, aggVars,
                    broadcast_queue, workers, received, next_sent >>


\* ------------------------------------------- bot.py relay: auto-ban check
\* if is_auto_banned(user_id): media -> update_media_activity and carry on (no
\* return); anything else -> "You are inactive" and return
bot_auto(t) ==
    LET h == handlers[t] IN
    /\ variant = "bot"
    /\ h.pc = "auto"
    /\ IF is_auto_banned(users, h.msg.user)
       THEN IF IsMedia(h.msg) THEN Set(t, At(h, "recover"))
                              ELSE Set(t, Done(h, "inactive", 0))
       ELSE Set(t, At(h, "shadow"))
    /\ UNCHANGED << variant, history, regVars, clockVars, dbVars, aggVars, broadcast_queue, workers,
                    received, next_sent, activated_sent >>

bot_recover(t) ==
    LET h == handlers[t] IN
    /\ variant = "bot"
    /\ h.pc = "recover"
    /\ users' = update_media_activity_bot(users, h.msg.user, now)
    /\ Set(t, [h EXCEPT !.pc = "shadow", !.outcome = "reactivated"])
    /\ UNCHANGED << variant, history, regVars, clockVars, banned_words, message_map, aggVars,
                    broadcast_queue, workers, received, next_sent, activated_sent >>

\* ------------------------------------------------ relay: the common tail
\* if is_shadow(user_id): reply "Message sent."; return
relay_shadow(t) ==
    LET h == handlers[t] IN
    /\ h.pc = "shadow"
    /\ IF is_shadow(users, h.msg.user)
       THEN Set(t, Done(h, "ack", 0))
       ELSE Set(t, At(h, IF h.msg.content_type = "text" THEN "filter" ELSE "sweep"))
    /\ UNCHANGED << variant, history, regVars, clockVars, dbVars, aggVars, broadcast_queue, workers,
                    received, next_sent, activated_sent >>

\* if content_type == "text" and contains_banned_word(text): reply; return
relay_filter(t) ==
    LET h == handlers[t] IN
    /\ h.pc = "filter"
    /\ IF contains_banned_word(banned_words, h.msg.text)
       THEN Set(t, Done(h, "filtered", 0))
       ELSE Set(t, At(h, "sweep"))
    /\ UNCHANGED << variant, history, regVars, clockVars, dbVars, aggVars, broadcast_queue, workers,
                    received, next_sent, activated_sent >>

\* check_inactive_users()
relay_sweep(t) ==
    LET h == handlers[t] IN
    /\ h.pc = "sweep"
    /\ users' = IF variant = "gog" THEN check_inactive_users(users, now)
                                   ELSE check_inactive_users_bot(users, now)
    /\ Set(t, At(h, IF IsMedia(h.msg) THEN "track" ELSE "put"))
    /\ UNCHANGED << variant, history, regVars, clockVars, banned_words, message_map, aggVars,
                    broadcast_queue, workers, received, next_sent, activated_sent >>

\* if content_type in ['photo','video']: update_media_activity(user_id)
\* gog.py: a media message without media_group_id then reads `group_id`, which
\* was never bound on this path (line 902): UnboundLocalError.
track_next(v, m) ==
    IF m.media_group_id # NoGid THEN "append"
    ELSE IF v = "gog" THEN "raise"
    ELSE "put"

relay_track(t) ==
    LET h == handlers[t]
        u == h.msg.user
        nxt == track_next(variant, h.msg)
    IN
    /\ h.pc = "track"
    /\ users' = IF variant = "gog" THEN update_media_activity(users, u, 1, now).users
                                   ELSE update_media_activity_bot(users, u, now)
    /\ IF nxt = "raise" THEN Set(t, Done(h, "error", 0))
       ELSE Set(t, [h EXCEPT !.pc = nxt, !.kind = IF nxt = "append" THEN "album" ELSE ""])
    /\ UNCHANGED << variant, history, regVars, clockVars, banned_words, message_map, aggVars,
                    broadcast_queue, workers, received, next_sent, activated_sent >>

\* media_groups[group_id].append(message)
relay_append(t) ==
    LET h == handlers[t]
        g == h.msg.media_group_id
    IN
    /\ h.pc = "append"
    /\ media_groups' = [media_groups EXCEPT ![g] = Append(@, h.msg)]
    /\ Set(t, At(h, IF variant = "gog" THEN "timer_check" ELSE "len_check"))
    /\ UNCHANGED << variant, history, regVars, clockVars, dbVars, album_timers, flushers,
                    broadcast_queue, workers, received, next_sent, activated_sent >>

\* broadcast_queue.put({"type": "single", "message": message})
relay_put(t) ==
    LET h == handlers[t] IN
    /\ h.pc = "put"
    /\ broadcast_queue' = Append(broadcast_queue, Single(h.msg))
    /\ history' = Put(history, Single(h.msg))
    /\ Set(t, Done(h, "enqueued", 0))
    /\ UNCHANGED << variant, regVars, clockVars, dbVars, aggVars, workers, received,
                    next_sent, activated_sent >>


\* ---------------------------------------- gog.py: arming the album timer
\* how a buffered album item ends for its sender: it waits for the broadcast
\* ("buffered") or for the activation / recovery count ("counting")
buffered(kind) == IF kind = "album" THEN "buffered" ELSE "counting"

\* if group_id in album_timers: return
gog_timer_check(t) ==
    LET h == handlers[t] IN
    /\ variant = "gog"
    /\ h.pc = "timer_check"
    /\ IF h.msg.media_group_id \in album_timers
       THEN Set(t, Done(h, buffered(h.kind), 0))
       ELSE Set(t, At(h, "arm"))
    /\ UNCHANGED << variant, history, regVars, clockVars, dbVars, aggVars, broadcast_queue, workers,
                    received, next_sent, activated_sent >>

\* album_timers[group_id] = True; threading.Thread(target=process_...).start()
gog_arm(t) ==
    LET h == handlers[t]
        g == h.msg.media_group_id
    IN
    /\ variant = "gog"
    /\ h.pc = "arm"
    /\ album_timers' = album_timers \cup {g}
    /\ flushers' = flushers \cup { Flusher(h.kind, g, h.msg.user, h.msg.id) }
    /\ Set(t, Done(h, buffered(h.kind), 0))
    /\ UNCHANGED << variant, history, regVars, clockVars, dbVars, media_groups, broadcast_queue,
                    workers, received, next_sent, activated_sent >>

\* ------------- gog.py: process_activation / process_recovery / process_album
\* the thread started by the relay invocation of message `by`
has_flusher(by) == \E f \in flushers : f.by = by

armed_by(by) == CHOOSE f \in flushers : f.by = by

\* time.sleep(0.8); album = media_groups.pop(group_id, [])
flush_pop(by) ==
    LET f == armed_by(by) IN
    /\ has_flusher(by)
    /\ f.pc = "sleep"
    /\ media_groups' = [media_groups EXCEPT ![f.gid] = <<>>]
    /\ flushers' = (flushers \ {f})
                   \cup { [f EXCEPT !.pc = "popped", !.album = media_groups[f.gid]] }
    /\ UNCHANGED << variant, history, regVars, clockVars, dbVars, album_timers, broadcast_queue,
                    handlers, workers, received, next_sent, activated_sent >>

\* album_timers.pop(group_id, None); if not album: return
flush_timer(by) ==
    LET f == armed_by(by) IN
    /\ has_flusher(by)
    /\ f.pc = "popped"
    /\ album_timers' = album_timers \ {f.gid}
    /\ flushers' = (flushers \ {f})
                   \cup { IF f.album = <<>> THEN Ended(f, "empty", 0)
                                            ELSE [f EXCEPT !.pc = "finish"] }
    /\ UNCHANGED << variant, history, regVars, clockVars, dbVars, media_groups, broadcast_queue,
                    handlers, workers, received, next_sent, activated_sent >>

\* process_album: broadcast_queue.put({"type": "album", "messages": album})
flush_put(by) ==
    LET f == armed_by(by) IN
    /\ has_flusher(by)
    /\ f.pc = "finish"
    /\ f.kind = "album"
    /\ broadcast_queue' = Append(broadcast_queue, Album(f.album))
    /\ history' = Put(history, Album(f.album))
    /\ flushers' = (flushers \ {f}) \cup { Ended(f, "enqueued", 0) }
    /\ UNCHANGED << variant, regVars, clockVars, dbVars, media_groups, album_timers,
                    handlers, workers, received, next_sent, activated_sent >>

\* process_activation / process_recovery:
\* update_media_activity(user_id, len(album)) and the notice
flush_count(by) ==
    LET f == armed_by(by)
        res == update_media_activity(users, f.user, Len(f.album), now)
        out == report(f.kind, res)
    IN
    /\ has_flusher(by)
    /\ f.pc = "finish"
    /\ f.kind \in {"activation", "recovery"}
    /\ users' = res.users
    /\ activated_sent' = IF out = "activated" THEN NoticeActivated(f.user)
                         ELSE activated_sent
    /\ flushers' = (flushers \ {f}) \cup { Ended(f, out, res.remaining) }
    /\ UNCHANGED << variant, history, regVars, clockVars, banned_words, message_map, media_groups,
                    album_timers, broadcast_queue, handlers, workers, received,
                    next_sent >>

\* --------------------------------- bot.py: the first item waits and flushes
\* if len(media_groups[group_id]) > 1: return
bot_len_check(t) ==
    LET h == handlers[t] IN
    /\ variant = "bot"
    /\ h.pc = "len_check"
    /\ IF Len(media_groups[h.msg.media_group_id]) > 1
       THEN Set(t, Done(h, "buffered", 0))
       ELSE Set(t, At(h, "sleep"))
    /\ UNCHANGED << variant, history, regVars, clockVars, dbVars, aggVars, broadcast_queue, workers,
                    received, next_sent, activated_sent >>

\* time.sleep(0.7); album = media_groups.pop(group_id, [])
bot_pop(t) ==
    LET h == handlers[t]
        g == h.msg.media_group_id
    IN
    /\ variant = "bot"
    /\ h.pc = "sleep"
    /\ media_groups' = [media_groups EXCEPT ![g] = <<>>]
    /\ IF media_groups[g] = <<>>
       THEN Set(t, Done(h, "buffered", 0))
       ELSE Set(t, [h EXCEPT !.pc = "put_album", !.album = media_groups[g]])
    /\ UNCHANGED << variant, history, regVars, clockVars, dbVars, album_timers, flushers,
                    broadcast_queue, workers, received, next_sent, activated_sent >>

\* if album: broadcast_queue.put({"type": "album", "messages": album})
bot_put_album(t) ==
    LET h == handlers[t] IN
    /\ variant = "bot"
    /\ h.pc = "put_album"
    /\ broadcast_queue' = Append(broadcast_queue, Album(h.album))
    /\ history' = Put(history, Album(h.album))
    /\ Set(t, Done(h, "flushed", 0))
    /\ UNCHANGED << variant, regVars, clockVars, dbVars, aggVars, workers, received,
                    next_sent, activated_sent >>


\* ------------------------------------------------------ broadcast_worker
RECURSIVE Ascending(_)
Ascending(S) ==
    IF S = {} THEN <<>>
    ELSE LET m == CHOOSE x \in S : \A y \in S : x <= y
         IN  <<m>> \o Ascending(S \ {m})

Min(a, b) == IF a < b THEN a ELSE b

\* mutant: only the full slices are taken, range(0, len - len % 10, 10)
chunks_full_only(batch) ==
    [ k \in 1..(Len(batch) \div CHUNK) |->
        SubSeq(batch, (k - 1) * CHUNK + 1, k * CHUNK) ]

\* chunks = [media_batch[i:i+10] for i in range(0, len(media_batch), 10)]
chunks(media_batch) ==
    [ k \in 1..((Len(media_batch) + CHUNK - 1) \div CHUNK) |->
        SubSeq(media_batch, (k - 1) * CHUNK + 1, Min(k * CHUNK, Len(media_batch))) ]

\* media_batch: one InputMedia per photo / video of the album, in order; the
\* caption of messages[0] gets the prefix in front (a photo's text field
\* stands for message.caption)
InputMedia(prefix, messages, i) ==
    [ media |-> messages[i].id, type |-> messages[i].content_type,
      caption |-> IF i = 1 THEN prefix \o messages[i].text ELSE messages[i].text ]

IsInputMedia(x) == x.type \in {"photo", "video"}

media_batch(prefix, messages) ==
    SelectSeq([ i \in 1..Len(messages) |-> InputMedia(prefix, messages, i) ],
              IsInputMedia)

Origin(job) == job.messages[1].user

\* the users the loop does not skip, in the order of the loop
recipients(us, origin) == Ascending(get_all_users(us) \ {origin})

\* The sends of one job in the order the loops make them: for every recipient,
\* the one message of a single job, or every chunk of an album.
RECURSIVE sends(_, _)
sends(rcpts, sizes) ==
    IF rcpts = <<>> THEN <<>>
    ELSE [ k \in 1..Len(sizes) |-> [ to |-> Head(rcpts), chunk |-> k, size |-> sizes[k] ] ]
         \o sends(Tail(rcpts), sizes)

job_sends(us, job) ==
    sends(recipients(us, Origin(job)),
          IF job.type = "single" THEN <<1>>
          ELSE LET cs == chunks(media_batch(build_prefix(us, Origin(job)), job.messages))
               IN  [ k \in DOMAIN cs |-> Len(cs[k]) ])

\* mutant: a LifoQueue, the item put last comes out first
Queue_get_lifo(q) == [ item |-> q[Len(q)], rest |-> SubSeq(q, 1, Len(q) - 1) ]

\* Queue.get(): the item put first, and the queue without it
Queue_get(q) == [ item |-> Head(q), rest |-> Tail(q) ]

\* job = broadcast_queue.get()
worker_get(th) ==
    LET got == Queue_get(broadcast_queue) IN
    /\ workers[th].pc = "idle"
    /\ broadcast_queue # <<>>
    /\ workers' = [workers EXCEPT ![th] =
                      [WorkerIdle EXCEPT !.pc = "start", !.job = got.item,
                                         !.seq = Len(history.got) + 1,
                                         !.before = message_map]]
    /\ broadcast_queue' = got.rest
    /\ history' = Got(history, got.item)
    /\ UNCHANGED << variant, regVars, clockVars, dbVars, aggVars, handlers, received,
                    next_sent, activated_sent >>

\* task_done(), back to the top of `while True`
worker_after(w) == IF w.todo = <<>> THEN [w EXCEPT !.pc = "idle"] ELSE w

\* users = get_all_users(); prefix = build_prefix(...): the store answers
worker_begin(th) ==
    LET w == [workers[th] EXCEPT !.pc = "send",
                                 !.todo = job_sends(users, workers[th].job)]
    IN
    /\ workers[th].pc = "start"
    /\ workers' = [workers EXCEPT ![th] = worker_after(w)]
    /\ history' = Returned(history, w)
    /\ UNCHANGED << variant, regVars, clockVars, dbVars, aggVars, broadcast_queue,
                    handlers, received, next_sent, activated_sent >>

\* ... or the store raises: the call is outside every try, the exception leaves
\* _process_single / _process_album and broadcast_worker's `while True`
worker_raise(w) == [w EXCEPT !.pc = "dead"]

worker_store_error(th) ==
    /\ workers[th].pc = "start"
    /\ workers' = [workers EXCEPT ![th] = worker_raise(workers[th])]
    /\ UNCHANGED << variant, history, regVars, clockVars, dbVars, aggVars,
                    broadcast_queue, handlers, received, next_sent, activated_sent >>

\* the rows saved for the messages the transport returned
RECURSIVE save_all(_, _, _, _, _)
save_all(mm, first, n, origin, to) ==
    IF n = 0 THEN mm
    ELSE save_all(save_message_map(mm, first, origin, to), first + 1, n - 1, origin, to)

\* mutant: the try is around the loop, a failed send ends the job
after_send_abort(w, ok) ==
    LET s == Head(w.todo) IN
    worker_after([w EXCEPT !.todo = IF ok THEN Tail(w.todo) ELSE <<>>,
                           !.attempted = @ \cup { <<s.to, s.chunk>> },
                           !.delivered = IF ok THEN @ \cup { <<s.to, s.chunk>> } ELSE @])

\* one pass of the try block: send to one recipient (one chunk); on success save
\* the mapping of every message sent; on a transport error print and go on
after_send(w, ok) ==
    LET s == Head(w.todo) IN
    worker_after([w EXCEPT !.todo = Tail(w.todo),
                           !.attempted = @ \cup { <<s.to, s.chunk>> },
                           !.delivered = IF ok THEN @ \cup { <<s.to, s.chunk>> } ELSE @])

worker_send(th, ok) ==
    LET w == workers[th]
        s == Head(w.todo)
    IN
    /\ w.pc = "send"
    /\ workers' = [workers EXCEPT ![th] = after_send(w, ok)]
    /\ message_map' = IF ok THEN save_all(message_map, next_sent, s.size,
                                          Origin(w.job), s.to)
                      ELSE message_map
    /\ next_sent' = IF ok THEN next_sent + s.size ELSE next_sent
    /\ history' = Returned(Sent(history, w, s), after_send(w, ok))
    /\ UNCHANGED << variant, regVars, clockVars, users, banned_words, aggVars,
                    broadcast_queue, handlers, received, activated_sent >>

\* the one worker thread the program starts
worker == workers["w1"]

\* ------------------------------------------------------------------- Next
Relay ==
    \E t \in Threads :
        \/ /\ received < MaxMsgs
           /\ \E u \in Senders : \E m \in Inbound(received + 1, u) : relay_banned(t, m)
        \/ gog_row(t)
        \/ gog_count_media(t)
        \/ bot_auto(t)
        \/ bot_recover(t)
        \/ relay_shadow(t)
        \/ relay_filter(t)
        \/ relay_sweep(t)
        \/ relay_track(t)
        \/ relay_append(t)
        \/ relay_put(t)
        \/ gog_timer_check(t)
        \/ gog_arm(t)
        \/ bot_len_check(t)
        \/ bot_pop(t)
        \/ bot_put_album(t)

Flush ==
    \E by \in 1..MaxMsgs :
        \/ flush_pop(by)
        \/ flush_timer(by)
        \/ flush_put(by)
        \/ flush_count(by)

Worker ==
    \E th \in WorkerThreads :
        \/ worker_get(th)
        \/ worker_begin(th)
        \/ worker_store_error(th)
        \/ \E ok \in BOOLEAN : worker_send(th, ok)

\* The inbound side: handlers, album timers, the clock.
Next == Tick \/ Relay \/ Flush

Spec == Init /\ [][Next]_vars


\* ------------------------------------------------ the fan-out side alone
\* broadcast_worker on a queue that relay has filled: one or more jobs of users
\* 2 and 3 wait in the queue; the store is any of the initial tables.
AlbumSizes == {2, CHUNK + 1}

AlbumOf(u, n) ==
    Album([ i \in 1..n |->
              Msg(i, u, IF i % 2 = 1 THEN "photo" ELSE "video", <<u, 1>>, <<>>) ])

InitJobs ==
    { Single(Msg(1, u, "text", NoGid, <<"o", "k">>)) : u \in {2, 3} }
    \cup { Single(Msg(1, u, "photo", NoGid, <<>>)) : u \in {2, 3} }
    \cup { AlbumOf(u, n) : u \in {2, 3}, n \in AlbumSizes }

RECURSIVE Queues(_)
Queues(n) ==
    IF n = 0 THEN { <<>> }
    ELSE Queues(n - 1)
         \cup { Append(q, j) : q \in { x \in Queues(n - 1) : Len(x) = n - 1 },
                               j \in InitJobs }

InitFanout ==
    /\ InitCommon
    /\ broadcast_queue \in Queues(MaxInitJobs) \ { <<>> }
    /\ InitHistory

NextFanout == Worker

SpecFanout == InitFanout /\ [][NextFanout]_vars



\* ------------------------------------------------ one album job, chunked
\* broadcast_worker on one Album job of 1 to 23 items.
ChunkingSizes == {1, CHUNK, CHUNK + 1, 2 * CHUNK, 2 * CHUNK + 3}

InitChunking ==
    /\ InitCommon
    /\ broadcast_queue \in { << AlbumOf(u, n) >> : u \in {2, 3}, n \in ChunkingSizes }
    /\ InitHistory

SpecChunking == InitChunking /\ [][NextFanout]_vars


\* --------------------------------- gog.py: activation by albums, alone
\* User 2 is not yet activated and sends photos, alone or as items of one
\* album; user 3 is active and sends texts (each admitted text runs the sweep).
InboundActivation(id) ==
    { Msg(id, 2, "photo", <<2, 1>>, <<>>), Msg(id, 2, "photo", NoGid, <<>>),
      Msg(id, 3, "text", NoGid, <<"o", "k">>) }

InitActivation ==
    /\ InitCommon
    /\ broadcast_queue = <<>>
    /\ InitHistory
    /\ variant = "gog"
    /\ \E lm \in InitStamps :
          users = Table(Active(Adm, StartNow),
                        Row(Ann, FALSE, FALSE, FALSE, FALSE, ACTIVATION - 1, lm),
                        Active(NoName, StartNow))

NextActivation ==
    \/ Tick
    \/ \E t \in Threads :
          \/ /\ received < MaxMsgs + 1
             /\ \E m \in InboundActivation(received + 1) : relay_banned(t, m)
          \/ gog_row(t)
          \/ gog_count_media(t)
          \/ relay_shadow(t)
          \/ relay_filter(t)
          \/ relay_sweep(t)
          \/ relay_track(t)
          \/ relay_append(t)
          \/ relay_put(t)
          \/ gog_timer_check(t)
          \/ gog_arm(t)
    \/ \E by \in 1..(MaxMsgs + 1) :
          \/ flush_pop(by)
          \/ flush_timer(by)
          \/ flush_put(by)
          \/ flush_count(by)

SpecActivation == InitActivation /\ [][NextActivation]_vars

\* ------------------------------- gog.py: the activation / recovery policy
\* User 2 has any activation count around the threshold and is auto-banned or
\* not; it sends a text, a photo or an album photo.  User 3 is active and
\* sends texts.
PolicyCounts == {0, ACTIVATION - 2, ACTIVATION - 1, ACTIVATION, ACTIVATION + 1}

InboundPolicy(id) ==
    { Msg(id, 2, "photo", <<2, 1>>, <<>>), Msg(id, 2, "photo", NoGid, <<>>),
      Msg(id, 2, "text", NoGid, <<"o", "k">>), Msg(id, 3, "text", NoGid, <<"o", "k">>) }

InitPolicy ==
    /\ InitProcess
    /\ settings = init_db(NoSettings)
    /\ broadcast_queue = <<>>
    /\ InitHistory
    /\ variant = "gog"
    /\ \E a \in BOOLEAN, c \in PolicyCounts, lm \in InitStamps :
          users = Table(Active(Adm, StartNow),
                        Row(Ann, FALSE, a, FALSE, FALSE, c, lm),
                        Active(NoName, StartNow))

GogSteps(t) ==
    \/ gog_row(t)
    \/ gog_count_media(t)
    \/ relay_shadow(t)
    \/ relay_filter(t)
    \/ relay_sweep(t)
    \/ relay_track(t)
    \/ relay_append(t)
    \/ relay_put(t)
    \/ gog_timer_check(t)
    \/ gog_arm(t)

NextPolicy ==
    \/ Tick
    \/ \E t \in Threads :
          \/ /\ received < MaxMsgs
             /\ \E m \in InboundPolicy(received + 1) : relay_banned(t, m)
          \/ GogSteps(t)
    \/ Flush

SpecPolicy == InitPolicy /\ [][NextPolicy]_vars

\* ------------------------------------ the handlers and the worker together
\* Users 2 and 3 are active; they send texts, user 2 also the photos of one
\* album.  The worker drains the queue while the handlers fill it.
InboundPipeline(id) ==
    { Msg(id, 2, "text", NoGid, <<"o", "k">>), Msg(id, 3, "text", NoGid, <<"o", "k">>),
      Msg(id, 2, "photo", <<2, 1>>, <<>>) }

InitPipeline ==
    /\ InitProcess
    /\ settings = init_db(NoSettings)
    /\ users = Table(Active(Adm, StartNow), Active(Ann, StartNow),
                     Active(NoName, StartNow))
    /\ broadcast_queue = <<>>
    /\ InitHistory

NextPipeline ==
    \/ \E t \in Threads :
          \/ /\ received < MaxMsgs
             /\ \E m \in InboundPipeline(received + 1) : relay_banned(t, m)
          \/ gog_row(t)
          \/ bot_auto(t)
          \/ relay_shadow(t)
          \/ relay_filter(t)
          \/ relay_sweep(t)
          \/ relay_track(t)
          \/ relay_append(t)
          \/ relay_put(t)
          \/ gog_timer_check(t)
          \/ gog_arm(t)
          \/ bot_len_check(t)
          \/ bot_pop(t)
          \/ bot_put_album(t)
    \/ \E by \in 1..MaxMsgs :
          \/ flush_pop(by)
          \/ flush_timer(by)
          \/ flush_put(by)
    \/ Worker

SpecPipeline == InitPipeline /\ [][NextPipeline]_vars

\* the worker thread is scheduled like any other thread: it is not left
\* waiting forever while it has a step to take
SpecPipelineFair == SpecPipeline /\ WF_vars(Worker)

\* ------------------------------- gog.py: one media_group_id, used again
\* User 2 is active and sends photos that all carry one media_group_id, at any
\* distance from each other: within one debounce window or after the flush.
InboundAlbums(id) == { Msg(id, 2, "photo", <<2, 1>>, <<>>) }

InitAlbums ==
    /\ InitPipeline
    /\ variant = "gog"

NextAlbums ==
    \/ \E t \in Threads :
          \/ /\ received < MaxMsgs + 1
             /\ \E m \in InboundAlbums(received + 1) : relay_banned(t, m)
          \/ gog_row(t)
          \/ relay_shadow(t)
          \/ relay_sweep(t)
          \/ relay_track(t)
          \/ relay_append(t)
          \/ gog_timer_check(t)
          \/ gog_arm(t)
    \/ \E by \in 1..(MaxMsgs + 1) :
          \/ flush_pop(by)
          \/ flush_timer(by)
          \/ flush_put(by)

SpecAlbums == InitAlbums /\ [][NextAlbums]_vars

\* every handler thread and timer thread that can take a step gets to take one
SpecAlbumsFair == SpecAlbums /\ WF_vars(NextAlbums)

\* ------------------------------------------------ commands: text handling
\* str.strip(): blanks at both ends are dropped
RECURSIVE lstrip(_)
lstrip(s) == IF s # <<>> /\ Head(s) = " " THEN lstrip(Tail(s)) ELSE s

RECURSIVE rstrip(_)
rstrip(s) == IF s # <<>> /\ s[Len(s)] = " " THEN rstrip(SubSeq(s, 1, Len(s) - 1)) ELSE s

strip(s) == rstrip(lstrip(s))

\* the position of the first blank of s, Len(s) + 1 if it has none
FirstBlank(s) ==
    IF \E i \in 1..Len(s) : s[i] = " "
    THEN CHOOSE i \in 1..Len(s) : s[i] = " " /\ \A j \in 1..(i - 1) : s[j] # " "
    ELSE Len(s) + 1

\* text.split(maxsplit=1): parts[0], and parts[1] (<<>> when len(parts) < 2)
first_part(s) == SubSeq(s, 1, FirstBlank(s) - 1)

second_part(s) == lstrip(SubSeq(s, FirstBlank(s), Len(s)))

\* m.text.startswith('/')
is_command(text) == text # <<>> /\ text[1] = "/"

\* telebot: the command of a text, the first word without its slash
extract_command(text) == IF is_command(text) THEN Tail(first_part(text)) ELSE <<>>

\* int(parts[1]) of /unban: the user ids in use; anything else raises
int(s) == IF s = <<"2">> THEN 2 ELSE IF s = <<"3">> THEN 3 ELSE 0

\* the commands that have a handler, in the spelling of the decorators
Commands ==
    [ start |-> <<"s", "t", "a", "r", "t">>,
      ban |-> <<"b", "a", "n">>,
      unban |-> <<"u", "n", "b", "a", "n">>,
      purge |-> <<"p", "u", "r", "g", "e">>,
      del |-> <<"d", "e", "l">>,
      addword |-> <<"a", "d", "d", "w", "o", "r", "d">>,
      removeword |-> <<"r", "e", "m", "o", "v", "e", "w", "o", "r", "d">>,
      shadow |-> <<"s", "h", "a", "d", "o", "w">>,
      closejoin |-> <<"c", "l", "o", "s", "e", "j", "o", "i", "n">>,
      openjoin |-> <<"o", "p", "e", "n", "j", "o", "i", "n">> ]

Slash(name) == <<"/">> \o name

\* message.reply_to_message.message_id; 0: the message is not a reply
Reply(m, to) == [m EXCEPT !.reply_to = to]

\* telebot tries the message handlers in the order of their decorators and runs
\* the first whose filter matches: start, receive_username, relay, then the
\* moderator's commands.  Callback queries have their own, single handler.
handler_for(waiting, m) ==
    IF m.content_type = "callback" THEN "callback_handler"
    ELSE IF m.content_type = "text" /\ extract_command(m.text) = Commands.start
    THEN "start"
    ELSE IF m.content_type = "text" /\ m.user \in waiting THEN "receive_username"
    ELSE IF m.content_type \in {"text", "photo", "video"} /\ ~is_command(m.text)
    THEN "relay"
    ELSE IF m.content_type = "text"
            /\ \E c \in DOMAIN Commands : Commands[c] = extract_command(m.text)
    THEN CHOOSE c \in DOMAIN Commands : Commands[c] = extract_command(m.text)
    ELSE "none"

\* a handler other than relay starts on a free pool thread
Enter(t, m, handler) ==
    /\ t \in FreeThreads
    /\ t = CHOOSE x \in FreeThreads : TRUE
    /\ handler_for(waiting_username, m) = handler
    /\ received' = received + 1

Begin(m) == [Idle EXCEPT !.msg = m]

\* ------------------------------------------------------ store: registration
\* INSERT INTO users (user_id) VALUES (u) ON CONFLICT DO NOTHING: the columns
\* take their defaults
add_user(us, u) ==
    IF u \in DOMAIN us THEN us
    ELSE us @@ (u :> Row(NoName, FALSE, FALSE, FALSE, FALSE, 0, NULL))

\* SELECT 1 FROM users WHERE username = lower(name)
username_taken(us, name) == \E v \in DOMAIN us : us[v].username = lower(name)

\* mutant: the column is not declared UNIQUE
unique_violation_never(us, u, name) == FALSE

\* username TEXT UNIQUE: the UPDATE raises when another row holds the value
unique_violation(us, u, name) ==
    /\ u \in DOMAIN us
    /\ \E v \in DOMAIN us \ {u} : us[v].username = lower(name)

\* UPDATE users SET username = lower(name) WHERE user_id = u
set_username(us, u, name) ==
    IF u \in DOMAIN us THEN [us EXCEPT ![u].username = lower(name)] ELSE us

\* mutant: the flag is not looked at
is_join_open_always(st) == TRUE

\* SELECT value FROM settings WHERE key='join_open'; r and r[0] == "true"
is_join_open(st) == "join_open" \in DOMAIN st /\ st["join_open"] = "true"

\* UPDATE settings SET value = ... WHERE key='join_open'
set_join_status(st, status) ==
    IF "join_open" \in DOMAIN st
    THEN [st EXCEPT !["join_open"] = IF status THEN "true" ELSE "false"]
    ELSE st

\* -------------------------------------------------------------- /start
\* gog.py: if is_banned(user_id): reply and return.  bot.py has no such check.
start(t, m) ==
    LET h == Begin(m) IN
    /\ Enter(t, m, "start")
    /\ IF variant = "gog" /\ is_banned(users, m.user)
       THEN Set(t, Done(h, "banned", 0))
       ELSE Set(t, At(h, "exists"))
    /\ UNCHANGED << variant, history, regVars, clockVars, dbVars, aggVars,
                    broadcast_queue, workers, next_sent, activated_sent >>

\* if not user_exists(user_id): ... ; the known user goes on to its username
start_exists(t) ==
    LET h == handlers[t] IN
    /\ h.pc = "exists"
    /\ Set(t, At(h, IF user_exists(users, h.msg.user) THEN "name" ELSE "join"))
    /\ UNCHANGED << variant, history, regVars, clockVars, dbVars, aggVars,
                    broadcast_queue, workers, received, next_sent, activated_sent >>

\* if not is_join_open(): reply "Joining is closed"; return
start_join(t) ==
    LET h == handlers[t] IN
    /\ h.pc = "join"
    /\ IF is_join_open(settings) THEN Set(t, At(h, "add"))
                                 ELSE Set(t, Done(h, "closed", 0))
    /\ UNCHANGED << variant, history, regVars, clockVars, dbVars, aggVars,
                    broadcast_queue, workers, received, next_sent, activated_sent >>

\* add_user(user_id)
start_add(t) ==
    LET h == handlers[t] IN
    /\ h.pc = "add"
    /\ users' = add_user(users, h.msg.user)
    /\ Set(t, At(h, IF variant = "gog" THEN "stamp" ELSE "wait"))
    /\ UNCHANGED << variant, history, regVars, clockVars, banned_words, message_map,
                    aggVars, broadcast_queue, workers, received, next_sent,
                    activated_sent >>

\* gog.py: UPDATE users SET last_media = now WHERE user_id = ...
start_stamp(t) ==
    LET h == handlers[t]
        u == h.msg.user
    IN
    /\ variant = "gog"
    /\ h.pc = "stamp"
    /\ users' = IF u \in DOMAIN users THEN [users EXCEPT ![u].last_media = now]
                                      ELSE users
    /\ Set(t, At(h, "wait"))
    /\ UNCHANGED << variant, history, regVars, clockVars, banned_words, message_map,
                    aggVars, broadcast_queue, workers, received, next_sent,
                    activated_sent >>

\* if not get_username(user_id): ask for one; else "Welcome back"
start_name(t) ==
    LET h == handlers[t] IN
    /\ h.pc = "name"
    /\ IF get_username(users, h.msg.user) = NoName
       THEN Set(t, At(h, "wait"))
       ELSE Set(t, Done(h, "back", 0))
    /\ UNCHANGED << variant, history, regVars, clockVars, dbVars, aggVars,
                    broadcast_queue, workers, received, next_sent, activated_sent >>

\* waiting_username.add(user_id); reply "Send your username"
start_wait(t) ==
    LET h == handlers[t] IN
    /\ h.pc = "wait"
    /\ waiting_username' = waiting_username \cup {h.msg.user}
    /\ Set(t, Done(h, "asked", 0))
    /\ UNCHANGED << variant, history, settings, clockVars, dbVars, aggVars,
                    broadcast_queue, workers, received, next_sent, activated_sent >>

\* ---------------------------------------------------- receive_username
\* name = message.text.strip().lower()
submitted(m) == lower(strip(m.text))

\* if len(name) < 3: reply "too short"; return
receive_username(t, m) ==
    LET h == Begin(m) IN
    /\ Enter(t, m, "receive_username")
    /\ IF Len(submitted(m)) < 3 THEN Set(t, Done(h, "short", 0))
                                ELSE Set(t, At(h, "taken"))
    /\ UNCHANGED << variant, history, regVars, clockVars, dbVars, aggVars,
                    broadcast_queue, workers, next_sent, activated_sent >>

\* if username_taken(name): reply "already taken"; return
username_check(t) ==
    LET h == handlers[t] IN
    /\ h.pc = "taken"
    /\ IF username_taken(users, submitted(h.msg))
       THEN Set(t, Done(h, "taken", 0))
       ELSE Set(t, At(h, "set"))
    /\ UNCHANGED << variant, history, regVars, clockVars, dbVars, aggVars,
                    broadcast_queue, workers, received, next_sent, activated_sent >>

\* set_username(uid, name): the UPDATE, or the error of the UNIQUE constraint,
\* which ends the handler
username_set(t) ==
    LET h == handlers[t]
        u == h.msg.user
        name == submitted(h.msg)
    IN
    /\ h.pc = "set"
    /\ IF unique_violation(users, u, name)
       THEN users' = users /\ Set(t, Done(h, "error", 0))
       ELSE users' = set_username(users, u, name) /\ Set(t, At(h, "discard"))
    /\ UNCHANGED << variant, history, regVars, clockVars, banned_words, message_map,
                    aggVars, broadcast_queue, workers, received, next_sent,
                    activated_sent >>

\* waiting_username.discard(uid); reply "Username set"
username_discard(t) ==
    LET h == handlers[t] IN
    /\ h.pc = "discard"
    /\ waiting_username' = waiting_username \ {h.msg.user}
    /\ Set(t, Done(h, "named", 0))
    /\ UNCHANGED << variant, history, settings, clockVars, dbVars, aggVars,
                    broadcast_queue, workers, received, next_sent, activated_sent >>

\* ------------------------------------------------ the moderator's commands
is_admin(user_id) == user_id = ADMIN_ID

\* SELECT original_user_id FROM message_map WHERE bot_message_id = ...; 0: None
get_original_user(mm, bot_msg_id) ==
    IF \E r \in mm : r.bot_message_id = bot_msg_id
    THEN (CHOOSE r \in mm : r.bot_message_id = bot_msg_id).original_user_id
    ELSE 0

\* SELECT bot_message_id, receiver_id FROM message_map WHERE original_user_id = ...
get_user_messages(mm, u) ==
    { <<r.bot_message_id, r.receiver_id>> : r \in { x \in mm : x.original_user_id = u } }

ban_user(us, u) == IF u \in DOMAIN us THEN [us EXCEPT ![u].banned = TRUE] ELSE us

unban_user(us, u) == IF u \in DOMAIN us THEN [us EXCEPT ![u].banned = FALSE] ELSE us

shadow_toggle(us, u) ==
    IF u \in DOMAIN us THEN [us EXCEPT ![u].shadow_banned = ~@] ELSE us

add_banned_word(words, word) == words \cup {lower(word)}

remove_banned_word(words, word) == words \ {lower(word)}

\* The handlers of the moderator's commands read message_map (whose rows never
\* change) and make at most one UPDATE / INSERT / DELETE: one step each.
\* the user a command given as a reply is about
replied_user(m) == IF m.reply_to = 0 THEN 0 ELSE get_original_user(message_map, m.reply_to)

\* a command that does nothing to the store: the reply only
Answer(t, m, outcome, n) ==
    /\ Set(t, Done(Begin(m), outcome, n))
    /\ UNCHANGED << users, banned_words, settings >>

\* /ban
reply_ban(t, m) ==
    /\ Enter(t, m, "ban")
    /\ IF ~is_admin(m.user) THEN Answer(t, m, "denied", 0)
       ELSE IF replied_user(m) = 0 THEN Answer(t, m, "nobody", 0)
       ELSE /\ users' = ban_user(users, replied_user(m))
            /\ Set(t, Done(Begin(m), "banned_user", 0))
            /\ UNCHANGED << banned_words, settings >>
    /\ UNCHANGED << variant, history, waiting_username, clockVars, message_map,
                    aggVars, broadcast_queue, workers, next_sent, activated_sent >>

\* /unban, as a reply or with the user id behind the command
admin_unban(t, m) ==
    LET uid == IF m.reply_to # 0 THEN get_original_user(message_map, m.reply_to)
               ELSE int(second_part(m.text))
    IN
    /\ Enter(t, m, "unban")
    /\ IF ~is_admin(m.user) THEN Answer(t, m, "denied", 0)
       ELSE IF uid = 0 THEN Answer(t, m, "nobody", 0)
       ELSE /\ users' = unban_user(users, uid)
            /\ Set(t, Done(Begin(m), "unbanned_user", 0))
            /\ UNCHANGED << banned_words, settings >>
    /\ UNCHANGED << variant, history, waiting_username, clockVars, message_map,
                    aggVars, broadcast_queue, workers, next_sent, activated_sent >>

\* /purge: for mid, receiver_id in get_user_messages(uid): bot.delete_message in
\* a try / except; any of the calls can raise (the message is gone, the chat
\* has blocked the bot); `deleted` counts those that did not.  The store is
\* only read.
purge_user(t, m) ==
    LET rows == get_user_messages(message_map, replied_user(m)) IN
    /\ Enter(t, m, "purge")
    /\ IF ~is_admin(m.user) THEN Answer(t, m, "denied", 0) /\ history' = history
       ELSE IF replied_user(m) = 0 THEN Answer(t, m, "nobody", 0) /\ history' = history
       ELSE \E ok \in SUBSET rows :
               /\ Answer(t, m, "purged", Cardinality(ok))
               /\ history' = Deleted(history, rows, ok)
    /\ UNCHANGED << variant, waiting_username, clockVars, message_map,
                    aggVars, broadcast_queue, workers, next_sent, activated_sent >>

\* mutant: /del removes the copies of the replied-to message only
delete_everywhere_this_message(t, m) ==
    LET rows == { r \in get_user_messages(message_map, replied_user(m)) :
                    r[1] = m.reply_to }
    IN
    /\ Enter(t, m, "del")
    /\ IF ~is_admin(m.user) THEN Answer(t, m, "denied", 0) /\ history' = history
       ELSE IF replied_user(m) = 0 THEN Answer(t, m, "nobody", 0) /\ history' = history
       ELSE \E ok \in SUBSET rows :
               /\ Answer(t, m, "deleted", Cardinality(ok))
               /\ history' = Deleted(history, rows, ok)
    /\ UNCHANGED << variant, waiting_username, clockVars, message_map,
                    aggVars, broadcast_queue, workers, next_sent, activated_sent >>

\* /del: the same loop over get_user_messages(original_uid)
delete_everywhere(t, m) ==
    LET rows == get_user_messages(message_map, replied_user(m)) IN
    /\ Enter(t, m, "del")
    /\ IF ~is_admin(m.user) THEN Answer(t, m, "denied", 0) /\ history' = history
       ELSE IF replied_user(m) = 0 THEN Answer(t, m, "nobody", 0) /\ history' = history
       ELSE \E ok \in SUBSET rows :
               /\ Answer(t, m, "deleted", Cardinality(ok))
               /\ history' = Deleted(history, rows, ok)
    /\ UNCHANGED << variant, waiting_username, clockVars, message_map,
                    aggVars, broadcast_queue, workers, next_sent, activated_sent >>

\* /addword word
add_word(t, m) ==
    /\ Enter(t, m, "addword")
    /\ IF ~is_admin(m.user) THEN Answer(t, m, "denied", 0)
       ELSE IF second_part(m.text) = <<>> THEN Answer(t, m, "usage", 0)
       ELSE /\ banned_words' = add_banned_word(banned_words, second_part(m.text))
            /\ Set(t, Done(Begin(m), "word_added", 0))
            /\ UNCHANGED << users, settings >>
    /\ UNCHANGED << variant, history, waiting_username, clockVars, message_map,
                    aggVars, broadcast_queue, workers, next_sent, activated_sent >>

\* /removeword word
remove_word(t, m) ==
    /\ Enter(t, m, "removeword")
    /\ IF ~is_admin(m.user) THEN Answer(t, m, "denied", 0)
       ELSE IF second_part(m.text) = <<>> THEN Answer(t, m, "usage", 0)
       ELSE /\ banned_words' = remove_banned_word(banned_words, second_part(m.text))
            /\ Set(t, Done(Begin(m), "word_removed", 0))
            /\ UNCHANGED << users, settings >>
    /\ UNCHANGED << variant, history, waiting_username, clockVars, message_map,
                    aggVars, broadcast_queue, workers, next_sent, activated_sent >>

\* /shadow
shadow_command(t, m) ==
    /\ Enter(t, m, "shadow")
    /\ IF ~is_admin(m.user) THEN Answer(t, m, "denied", 0)
       ELSE IF replied_user(m) = 0 THEN Answer(t, m, "nobody", 0)
       ELSE /\ users' = shadow_toggle(users, replied_user(m))
            /\ Set(t, Done(Begin(m), "shadow_toggled", 0))
            /\ UNCHANGED << banned_words, settings >>
    /\ UNCHANGED << variant, history, waiting_username, clockVars, message_map,
                    aggVars, broadcast_queue, workers, next_sent, activated_sent >>

\* /closejoin
close_join(t, m) ==
    /\ Enter(t, m, "closejoin")
    /\ IF is_admin(m.user)
       THEN /\ settings' = set_join_status(settings, FALSE)
            /\ Set(t, Done(Begin(m), "join_closed", 0))
       ELSE /\ settings' = settings
            /\ Set(t, Done(Begin(m), "denied", 0))
    /\ UNCHANGED << variant, history, waiting_username, clockVars, dbVars, aggVars,
                    broadcast_queue, workers, next_sent, activated_sent >>

\* /openjoin
open_join(t, m) ==
    /\ Enter(t, m, "openjoin")
    /\ IF is_admin(m.user)
       THEN /\ settings' = set_join_status(settings, TRUE)
            /\ Set(t, Done(Begin(m), "join_opened", 0))
       ELSE /\ settings' = settings
            /\ Set(t, Done(Begin(m), "denied", 0))
    /\ UNCHANGED << variant, history, waiting_username, clockVars, dbVars, aggVars,
                    broadcast_queue, workers, next_sent, activated_sent >>

\* a button of the panel: call.data is "stats", "open" or "close"
Callback(id, u, data) == Msg(id, u, "callback", NoGid, data)

DataOpen == <<"o", "p", "e", "n">>
DataClose == <<"c", "l", "o", "s", "e">>
DataStats == <<"s", "t", "a", "t", "s">>

callback_handler(t, m) ==
    /\ Enter(t, m, "callback_handler")
    /\ IF ~is_admin(m.user)
       THEN settings' = settings /\ Set(t, Done(Begin(m), "denied", 0))
       ELSE IF m.text = DataOpen
       THEN /\ settings' = set_join_status(settings, TRUE)
            /\ Set(t, Done(Begin(m), "join_opened", 0))
       ELSE IF m.text = DataClose
       THEN /\ settings' = set_join_status(settings, FALSE)
            /\ Set(t, Done(Begin(m), "join_closed", 0))
       ELSE settings' = settings /\ Set(t, Done(Begin(m), "stats", 0))
    /\ UNCHANGED << variant, history, waiting_username, clockVars, dbVars, aggVars,
                    broadcast_queue, workers, next_sent, activated_sent >>

\* ------------------------------------------------ joining and usernames
\* Users 2 and 3 send /start and then texts that are taken for their username;
\* the moderator closes and opens joining.  The store holds the moderator
\* alone, or also user 2: without a username, or named and banned.
NameTexts == { <<" ", "B", "o", "b">>, <<"b", "o", "b", " ">>, <<"b", "o", " ">> }

InboundJoin(id) ==
    { Msg(id, u, "text", NoGid, Slash(Commands.start)) : u \in {2, 3} }
    \cup { Msg(id, u, "text", NoGid, x) : u \in {2, 3}, x \in NameTexts }
    \cup { Msg(id, ADMIN_ID, "text", NoGid, Slash(Commands.closejoin)),
           Msg(id, ADMIN_ID, "text", NoGid, Slash(Commands.openjoin)) }

\* the settings table as earlier runs left it
StoredSettings == { NoSettings, "join_open" :> "true", "join_open" :> "false" }

UsersJoin ==
    { 1 :> Active(Adm, StartNow),
      (1 :> Active(Adm, StartNow)) @@ (2 :> Row(NoName, FALSE, FALSE, FALSE, FALSE, 0, NULL)),
      (1 :> Active(Adm, StartNow)) @@ (2 :> Row(Ann, TRUE, FALSE, FALSE, FALSE, 0, NULL)) }

InitJoin ==
    /\ InitProcess
    /\ settings \in { init_db(st) : st \in StoredSettings }
    /\ users \in UsersJoin
    /\ broadcast_queue = <<>>
    /\ InitHistory

NextJoin ==
    \E t \in Threads :
        \/ /\ received < MaxMsgs + 2
           /\ \E m \in InboundJoin(received + 1) :
                 \/ start(t, m)
                 \/ receive_username(t, m)
                 \/ close_join(t, m)
                 \/ open_join(t, m)
        \/ start_exists(t)
        \/ start_join(t)
        \/ start_add(t)
        \/ start_stamp(t)
        \/ start_name(t)
        \/ start_wait(t)
        \/ username_check(t)
        \/ username_set(t)
        \/ username_discard(t)

SpecJoin == InitJoin /\ [][NextJoin]_vars

\* --------------------------------------- the moderator's commands, anyone's
\* The moderator (user 1) and user 3, who has no username yet, send /start, the
\* moderator's commands and panel callbacks; the commands that are given as a
\* reply answer the relayed message 1, which the store has on record for user
\* 2.  Meanwhile the worker fans out a text of user 2; the transport numbers
\* that text from 1 again for another chat (message ids are unique inside a
\* chat only).
ReplyCommands == { Commands.ban, Commands.unban, Commands.shadow, Commands.purge,
                   Commands.del }

InboundAdmin(id) ==
    UNION { { Reply(Msg(id, u, "text", NoGid, Slash(c)), 1) : c \in ReplyCommands }
            \cup { Msg(id, u, "text", NoGid, Slash(Commands.ban)),
                   Msg(id, u, "text", NoGid, Slash(Commands.unban) \o <<" ", "2">>),
                   Msg(id, u, "text", NoGid, Slash(Commands.addword) \o <<" ", "o", "k">>),
                   Msg(id, u, "text", NoGid, Slash(Commands.removeword) \o <<" ", "S", "p">>),
                   Msg(id, u, "text", NoGid, Slash(Commands.openjoin)),
                   Msg(id, u, "text", NoGid, Slash(Commands.closejoin)),
                   Msg(id, u, "text", NoGid, Slash(Commands.start)),
                   Callback(id, u, DataOpen), Callback(id, u, DataClose),
                   Callback(id, u, DataStats) }
            : u \in {ADMIN_ID, 3} }

\* the record of an earlier run
InitRecords ==
    message_map = { [ bot_message_id |-> 1, original_user_id |-> 2, receiver_id |-> 3 ] }

InitAdmin ==
    /\ InitThreads
    /\ InitRecords
    /\ settings \in { init_db(st) : st \in StoredSettings }
    /\ users \in { Table(Active(Adm, StartNow), Row(Ann, b, FALSE, FALSE, FALSE, ACTIVATION, StartNow),
                         Active(NoName, StartNow)) : b \in BOOLEAN }
    /\ broadcast_queue = << Single(Msg(0, 2, "text", NoGid, <<"o", "k">>)) >>
    /\ InitHistory

NextAdmin ==
    \/ \E t \in Threads :
          \/ /\ received < MaxMsgs
             /\ \E m \in InboundAdmin(received + 1) :
                   \/ start(t, m)
                   \/ receive_username(t, m)
                   \/ reply_ban(t, m)
                   \/ admin_unban(t, m)
                   \/ purge_user(t, m)
                   \/ delete_everywhere(t, m)
                   \/ add_word(t, m)
                   \/ remove_word(t, m)
                   \/ shadow_command(t, m)
                   \/ close_join(t, m)
                   \/ open_join(t, m)
                   \/ callback_handler(t, m)
          \/ start_exists(t)
          \/ start_name(t)
          \/ start_wait(t)
          \/ username_check(t)
          \/ username_set(t)
          \/ username_discard(t)
    \/ Worker

SpecAdmin == InitAdmin /\ [][NextAdmin]_vars

\* ------------------- gog.py: the activation count under every operation
\* User 2 has any count around the threshold and is auto-banned or not; it
\* sends a text, a photo, an album photo or /start.  User 3 is active and sends
\* texts (each admitted text runs the sweep).  The moderator answers the relayed
\* message 1, on record for user 2, with /ban, /unban, /shadow or /purge.
InboundCount(id) ==
    InboundPolicy(id)
    \cup { Msg(id, 2, "text", NoGid, Slash(Commands.start)) }
    \cup { Reply(Msg(id, ADMIN_ID, "text", NoGid, Slash(c)), 1) :
             c \in { Commands.ban, Commands.unban, Commands.shadow, Commands.purge } }

InitCount ==
    /\ InitThreads
    /\ InitRecords
    /\ settings = init_db(NoSettings)
    /\ broadcast_queue = <<>>
    /\ InitHistory
    /\ variant = "gog"
    /\ \E a \in BOOLEAN, c \in PolicyCounts, lm \in InitStamps :
          users = Table(Active(Adm, StartNow),
                        Row(Ann, FALSE, a, FALSE, FALSE, c, lm),
                        Active(NoName, StartNow))

NextCount ==
    \/ Tick
    \/ \E t \in Threads :
          \/ /\ received < MaxMsgs
             /\ \E m \in InboundCount(received + 1) :
                   \/ /\ handler_for(waiting_username, m) = "relay"
                      /\ relay_banned(t, m)
                   \/ start(t, m)
                   \/ reply_ban(t, m)
                   \/ admin_unban(t, m)
                   \/ shadow_command(t, m)
                   \/ purge_user(t, m)
          \/ GogSteps(t)
          \/ start_exists(t)
          \/ start_name(t)
    \/ Flush

SpecCount == InitCount /\ [][NextCount]_vars

\* --------------------------------------- a sender the store does not know
\* The store holds the moderator and user 2; user 3 has no row.  User 3 sends
\* a text, a photo, an album photo or /start, in any order, and the moderator
\* closes joining; joining is open or closed at the start.
Bob == <<"b", "o", "b">>

InboundStranger(id) ==
    { Msg(id, 3, "text", NoGid, Bob), Msg(id, 3, "photo", NoGid, <<>>),
      Msg(id, 3, "photo", <<3, 1>>, <<>>),
      Msg(id, 3, "text", NoGid, Slash(Commands.start)),
      Msg(id, ADMIN_ID, "text", NoGid, Slash(Commands.closejoin)) }

InitStranger ==
    /\ InitProcess
    /\ settings \in { init_db(st) : st \in StoredSettings }
    /\ users = (1 :> Active(Adm, StartNow)) @@ (2 :> Active(Ann, StartNow))
    /\ broadcast_queue = <<>>
    /\ InitHistory

NextStranger ==
    \/ \E t \in Threads :
          \/ /\ received < MaxMsgs
             /\ \E m \in InboundStranger(received + 1) :
                   \/ /\ handler_for(waiting_username, m) = "relay"
                      /\ relay_banned(t, m)
                   \/ start(t, m)
                   \/ receive_username(t, m)
                   \/ close_join(t, m)
          \/ start_exists(t)
          \/ start_join(t)
          \/ start_add(t)
          \/ start_stamp(t)
          \/ start_wait(t)
          \/ username_check(t)
          \/ username_set(t)
          \/ username_discard(t)
          \/ gog_row(t)
          \/ gog_count_media(t)
          \/ bot_auto(t)
          \/ relay_shadow(t)
          \/ relay_filter(t)
          \/ relay_sweep(t)
          \/ relay_track(t)
          \/ relay_append(t)
          \/ relay_put(t)
          \/ gog_timer_check(t)
          \/ gog_arm(t)
          \/ bot_len_check(t)
          \/ bot_pop(t)
          \/ bot_put_album(t)
    \/ \E by \in 1..MaxMsgs :
          \/ flush_pop(by)
          \/ flush_timer(by)
          \/ flush_count(by)

SpecStranger == InitStranger /\ [][NextStranger]_vars

\* ------------------------------------------ one user, two names submitted
\* User 2 has a row without a username; it sends /start and the texts "bob" and
\* "rob", in any order and as fast as it likes.
Rob == <<"r", "o", "b">>

InboundRename(id) ==
    { Msg(id, 2, "text", NoGid, Slash(Commands.start)),
      Msg(id, 2, "text", NoGid, Bob), Msg(id, 2, "text", NoGid, Rob) }

InitRename ==
    /\ InitProcess
    /\ settings = init_db(NoSettings)
    /\ users = (1 :> Active(Adm, StartNow))
               @@ (2 :> Row(NoName, FALSE, FALSE, FALSE, FALSE, 0, NULL))
    /\ broadcast_queue = <<>>
    /\ InitHistory

NextRename ==
    \E t \in Threads :
        \/ /\ received < MaxMsgs + 1
           /\ \E m \in InboundRename(received + 1) :
                 \/ start(t, m)
                 \/ receive_username(t, m)
        \/ start_exists(t)
        \/ start_name(t)
        \/ start_wait(t)
        \/ username_check(t)
        \/ username_set(t)
        \/ username_discard(t)

SpecRename == InitRename /\ [][NextRename]_vars

\* =================================================================== claims
\* helpers of the formulas
Begun(t) == handlers[t].pc \in {"idle", "done"} /\ handlers'[t] # handlers[t]

SeqRange(q) == { q[i] : i \in 1..Len(q) }

QueuedMsgs == UNION { SeqRange(broadcast_queue[i].messages) : i \in 1..Len(broadcast_queue) }

BufferedMsgs == UNION { SeqRange(media_groups[g]) : g \in Gids }

PoppedMsgs == UNION { SeqRange(f.album) : f \in flushers }
              \cup UNION { SeqRange(handlers[t].album) : t \in Threads }

\* C1: a message whose sender is manually banned when relay handles it is
\* answered "banned" and relay returns at once, whatever the sender's other
\* flags, count and the content are; it changes nothing else and the message
\* never reaches a buffer or the queue.  Both variants.
C1_BannedRejected ==
    [][ /\ \A t \in Threads :
              (Begun(t) /\ users[handlers'[t].msg.user].banned)
              => /\ handlers'[t].pc = "done"
                 /\ handlers'[t].outcome = "banned"
                 /\ UNCHANGED << users, broadcast_queue, media_groups, album_timers,
                                 flushers, message_map >>
        /\ \A t \in Threads :
              handlers'[t].outcome = "banned"
              => handlers'[t].msg \notin (QueuedMsgs \cup BufferedMsgs \cup PoppedMsgs)'
      ]_vars

\* a banned sender who is also auto-banned and shadow-banned got the rejection
C1_Witness ==
    \E t \in Threads :
        /\ handlers[t].outcome = "banned"
        /\ users[handlers[t].msg.user].banned
        /\ users[handlers[t].msg.user].auto_banned
        /\ users[handlers[t].msg.user].shadow_banned
        /\ users[handlers[t].msg.user].media_count < ACTIVATION
        /\ IsMedia(handlers[t].msg)


\* nothing is running: every relay invocation has returned and every timer
\* thread has ended
Quiescent ==
    /\ \A t \in Threads : handlers[t].pc \in {"idle", "done"}
    /\ \A f \in flushers : f.pc = "done"

AlbumJobsOf(g) ==
    { i \in 1..Len(broadcast_queue) :
        /\ broadcast_queue[i].type = "album"
        /\ broadcast_queue[i].messages[1].media_group_id = g }

\* C2: two messages of one media_group_id from an admitted sender, handled in
\* one debounce window, give exactly one Album job, holding both.  Stated for
\* the state in which everything has run: both invocations passed every check
\* and buffered their message.  A job that holds only one of the two means a
\* flush ran between the two arrivals, so they were not in one window.
C2_OneAlbumJob ==
    \A t1, t2 \in Threads :
        LET m1 == handlers[t1].msg
            m2 == handlers[t2].msg
            g == m1.media_group_id
        IN  ( /\ t1 # t2
              /\ Quiescent
              /\ g # NoGid
              /\ m2.media_group_id = g
              /\ handlers[t1].outcome \in {"buffered", "flushed"}
              /\ handlers[t2].outcome \in {"buffered", "flushed"}
              /\ ~ \E i \in AlbumJobsOf(g) :
                     Cardinality({m1, m2} \cap SeqRange(broadcast_queue[i].messages)) = 1 )
            => /\ Cardinality(AlbumJobsOf(g)) = 1
               /\ \A i \in AlbumJobsOf(g) :
                     /\ Len(broadcast_queue[i].messages) = 2
                     /\ SeqRange(broadcast_queue[i].messages) = {m1, m2}

\* the same, for gog.py alone
C2_OneAlbumJobGog == variant = "gog" => C2_OneAlbumJob

\* C3: a job whose processing raises does not stop the worker: it goes on to
\* the jobs behind it.  Stated as: the worker thread is never dead while a job
\* waits in the queue.
C3_WorkerAdvances == ~(worker.pc = "dead" /\ broadcast_queue # <<>>)

\* C4: gog.py sends "Your account is now activated!" to one user at most once.
C4_ActivatedOnce ==
    variant = "gog" => \A u \in UserIds : activated_sent[u] <= 1



\* the timer thread armed by message `by` ends in this step
Ends(f) == f.pc = "finish" /\ \E e \in flushers' : e.by = f.by /\ e.pc = "done"

EndOf(f) == CHOOSE e \in flushers' : e.by = f.by

\* what the sender is told after the count has become c
Told(e, c) ==
    IF c < ACTIVATION THEN e.outcome = "progress" /\ e.remaining = ACTIVATION - c
    ELSE e.outcome = "activated" /\ e.remaining = 0

\* the items of an album of a user who is not activated change no user row
\* before the flush
NoCountBeforeFlush ==
    \A t \in Threads :
        ( /\ handlers[t].kind = "activation"
          /\ handlers[t].pc \in {"append", "timer_check", "arm"}
          /\ handlers'[t] # handlers[t] )
        => UNCHANGED users

AddedRecords == message_map \ worker.before

NumChunks(job) ==
    IF job.type = "single" THEN 1 ELSE (Len(job.messages) + CHUNK - 1) \div CHUNK

C7_EverySendAttempted ==
    (worker.pc = "idle" /\ worker.job # NoJob)
    => worker.attempted =
         { <<u, k>> : u \in { v \in DOMAIN users :
                                /\ ~users[v].banned
                                /\ ~users[v].auto_banned
                                /\ v # worker.job.messages[1].user },
                      k \in 1..NumChunks(worker.job) }

\* an album of two chunks finished: the first send failed, a later one succeeded
C7_Witness ==
    /\ worker.pc = "idle"
    /\ worker.job.type = "album"
    /\ NumChunks(worker.job) = 2
    /\ Cardinality(worker.attempted) = 4
    /\ \E u \in UserIds : /\ <<u, 1>> \in worker.attempted \ worker.delivered
                          /\ <<u, 2>> \in worker.delivered
    /\ \E u \in UserIds : <<u, 1>> \notin worker.attempted \ worker.delivered

\* a Single job finished although the send to one recipient failed
C7_WitnessSingle ==
    /\ worker.pc = "idle"
    /\ worker.job.type = "single"
    /\ worker.attempted # worker.delivered

\* C8: at the shadow check of relay, a shadow-banned sender gets the
\* acknowledgment and relay returns: that step runs no sweep, changes no user
\* row, no delivery record, no buffer, timer or queue; and an acknowledged
\* message is never buffered or enqueued.  Both variants.
C8_ShadowSilent ==
    [][ /\ \A t \in Threads :
              ( /\ handlers[t].pc = "shadow"
                /\ handlers'[t] # handlers[t]
                /\ users[handlers[t].msg.user].shadow_banned )
              => /\ handlers'[t].pc = "done"
                 /\ handlers'[t].outcome = "ack"
                 /\ UNCHANGED << users, message_map, broadcast_queue, media_groups,
                                 album_timers, flushers, banned_words >>
        /\ \A t \in Threads :
              handlers'[t].outcome = "ack"
              => handlers'[t].msg \notin (QueuedMsgs \cup BufferedMsgs \cup PoppedMsgs)'
      ]_vars

\* a shadow-banned sender whose last media is older than the window was
\* acknowledged and is still not auto-banned: no sweep ran
C8_Witness ==
    \E t \in Threads :
        LET u == handlers[t].msg.user IN
        /\ handlers[t].outcome = "ack"
        /\ handlers[t].pc = "done"
        /\ users[u].shadow_banned
        /\ ~users[u].banned
        /\ ~users[u].auto_banned
        /\ users[u].last_media < now - WINDOW
        /\ broadcast_queue = <<>>

\* C9: in gog.py no step, the inactivity sweep included, turns on the auto-ban
\* flag of a whitelisted user or of the moderator.
C9_SweepSparesWhitelist ==
    [][ variant = "gog" =>
          \A u \in DOMAIN users :
              ((users[u].whitelisted \/ u = ADMIN_ID) /\ ~users[u].auto_banned)
              => ~users'[u].auto_banned ]_vars

Stale(u) == users[u].last_media = NULL \/ users[u].last_media < now - WINDOW

\* the sweep has just run (the invocation is past check_inactive_users) and
\* left a whitelisted user who never sent media untouched
C9_Witness ==
    /\ variant = "gog"
    /\ \E t \in Threads : handlers[t].pc \in {"track", "put"}
    /\ \E u \in DOMAIN users :
          /\ users[u].whitelisted /\ u # ADMIN_ID /\ Stale(u) /\ ~users[u].auto_banned
    /\ \E v \in DOMAIN users : users[v].auto_banned

\* ... and the moderator with an old last_media
C9_WitnessAdmin ==
    /\ variant = "gog"
    /\ \E t \in Threads : handlers[t].pc \in {"track", "put"}
    /\ Stale(ADMIN_ID)
    /\ ~users[ADMIN_ID].auto_banned

\* C10: in bot.py the moderator is never auto-banned.
C10_AdminNeverAutoBanned ==
    variant = "bot" => ~users[ADMIN_ID].auto_banned

\* a word occurs in a text at some position, letter case ignored
OccursIgnoringCase(w, s) ==
    \E i \in 1..Len(s) :
        /\ i + Len(w) - 1 <= Len(s)
        /\ \A j \in 1..Len(w) : Lower(s[i + j - 1]) = Lower(w[j])

HasBannedWord(m) == \E w \in banned_words : OccursIgnoringCase(w, m.text)

\* C11: at the word filter (the sender is past the ban, activation, auto-ban
\* and shadow checks) a text is dropped exactly when a banned word occurs in
\* it as a substring, letter case ignored; a dropped text is never enqueued; a
\* text that is not dropped goes through the sweep to the put, which enqueues
\* it as a Single job.  Both variants.
C11_FilteredIffBannedWord ==
    [][ \A t \in Threads :
          LET h == handlers[t]
              moved == handlers'[t] # h
          IN
          /\ (h.pc = "filter" /\ moved)
             => IF HasBannedWord(h.msg)
                THEN /\ handlers'[t].pc = "done"
                     /\ handlers'[t].outcome = "filtered"
                     /\ UNCHANGED << users, broadcast_queue, message_map >>
                ELSE handlers'[t].pc = "sweep"
          /\ (h.pc = "sweep" /\ moved /\ h.msg.content_type = "text")
             => handlers'[t].pc = "put"
          /\ (h.pc = "put" /\ moved)
             => /\ handlers'[t].outcome = "enqueued"
                /\ broadcast_queue' = Append(broadcast_queue, Single(h.msg))
          /\ handlers'[t].outcome = "filtered"
             => handlers'[t].msg \notin QueuedMsgs'
      ]_vars

\* one text with the banned word in another letter case inside a longer word
\* was dropped, and a clean text was enqueued as a Single job
C11_Witness ==
    \E t1, t2 \in Threads :
        /\ handlers[t1].outcome = "filtered"
        /\ handlers[t1].msg.text = <<"a", "S", "p">>
        /\ handlers[t2].outcome = "enqueued"
        /\ handlers[t2].msg.text = <<"o", "k">>
        /\ broadcast_queue = << Single(handlers[t2].msg) >>

\* the caption the transport is given for item j of chunk k
SentCaption(cs, k, j) == cs[k][j].caption

\* C12: for the Album job the worker has begun, _process_album's chunks are
\* ceil(n/10) in number, each of 1 to 10 items, and are the items of the album
\* in order, ten by ten (23 items: 10, 10, 3); the handle prefix is on the
\* caption of item 1 of chunk 1 and on no other; and when the job has finished
\* every chunk was sent to every recipient.
C12_AlbumChunks ==
    (worker.job.type = "album" /\ worker.pc \in {"send", "idle"})
    => LET msgs == worker.job.messages
           n == Len(msgs)
           prefix == build_prefix(users, msgs[1].user)
           cs == chunks(media_batch(prefix, msgs))
           last == (n + CHUNK - 1) \div CHUNK
       IN  /\ DOMAIN cs = 1..last
           /\ \A k \in 1..last :
                 /\ Len(cs[k]) = IF k < last THEN CHUNK ELSE n - (last - 1) * CHUNK
                 /\ Len(cs[k]) \in 1..CHUNK
                 /\ \A j \in 1..Len(cs[k]) :
                       /\ cs[k][j].media = msgs[(k - 1) * CHUNK + j].id
                       /\ cs[k][j].type = msgs[(k - 1) * CHUNK + j].content_type
                       /\ SentCaption(cs, k, j)
                             = IF k = 1 /\ j = 1 THEN prefix ELSE <<>>
           /\ prefix # <<>>
           /\ \A i \in 1..Len(worker.todo) :
                 /\ worker.todo[i].chunk \in 1..last
                 /\ worker.todo[i].size = Len(cs[worker.todo[i].chunk])
           /\ worker.pc = "idle"
              => worker.attempted =
                   { <<u, k>> : u \in get_all_users(users) \ {msgs[1].user},
                                k \in 1..last }

\* an album of 23 items has been sent, in 3 chunks, to two recipients
C12_Witness ==
    /\ worker.pc = "idle"
    /\ worker.job.type = "album"
    /\ Len(worker.job.messages) = 2 * CHUNK + 3
    /\ Cardinality(worker.attempted) = 6
    /\ worker.delivered = worker.attempted
    /\ Cardinality(message_map) = 2 * (2 * CHUNK + 3)

\* what relay's activation check finds for user u at this moment
Pending(u) ==
    /\ ~users[u].whitelisted
    /\ u # ADMIN_ID
    /\ ~users[u].auto_banned
    /\ users[u].media_count < ACTIVATION

SinglePhoto(m) == IsMedia(m) /\ m.media_group_id = NoGid

\* C13: in gog.py a single photo or video of a user who is not whitelisted,
\* not the moderator, not auto-banned and has a count below 12 is taken to the
\* counting branch, which adds exactly 1 to media_count and changes no other
\* user; the sender is told the remaining 12 - count, or, at 12, that the
\* account is activated; the message is not enqueued.  (The user's row is as
\* described both when relay reads it and when it counts.)
C13_SingleMediaCountsOne ==
    [][ \A t \in Threads :
          LET h == handlers[t]
              u == h.msg.user
              moved == handlers'[t] # h
          IN  /\ ( /\ variant = "gog" /\ h.pc = "row" /\ moved
                   /\ Pending(u) /\ SinglePhoto(h.msg) )
                 => /\ handlers'[t].pc = "count_media"
                    /\ UNCHANGED << users, broadcast_queue >>
              /\ ( /\ variant = "gog" /\ h.pc = "count_media" /\ moved
                   /\ Pending(u) )
                 => /\ users'[u].media_count = users[u].media_count + 1
                    /\ ~users'[u].auto_banned
                    /\ \A v \in DOMAIN users \ {u} : users'[v] = users[v]
                    /\ handlers'[t].pc = "done"
                    /\ Told(handlers'[t], users'[u].media_count)
                    /\ UNCHANGED broadcast_queue
                    /\ h.msg \notin (QueuedMsgs \cup BufferedMsgs \cup PoppedMsgs)'
      ]_vars

\* two photos took a user from 10 to 12: the first was answered "1 left", the
\* second "activated", and nothing was enqueued
C13_Witness ==
    \E t1, t2 \in Threads :
        /\ handlers[t1].outcome = "progress" /\ handlers[t1].remaining = 1
        /\ handlers[t2].outcome = "activated"
        /\ handlers[t1].msg.user = handlers[t2].msg.user
        /\ SinglePhoto(handlers[t1].msg) /\ SinglePhoto(handlers[t2].msg)
        /\ users[handlers[t1].msg.user].media_count = ACTIVATION
        /\ broadcast_queue = <<>>

\* C14: in gog.py the invocation for a message of a whitelisted user or of the
\* moderator goes from the manual-ban check past the activation and auto-ban
\* checks to the shadow check, whatever the count is (from there a text
\* without a banned word of a user who is not shadow-banned reaches the put);
\* it never ends without an answer.
C14_TrustedSkipActivation ==
    [][ \A t \in Threads :
          LET h == handlers[t]
              u == h.msg.user
          IN  ( /\ variant = "gog"
                /\ h.pc = "row"
                /\ handlers'[t] # h
                /\ (users[u].whitelisted \/ u = ADMIN_ID) )
              => /\ handlers'[t].pc = "shadow"
                 /\ handlers'[t].outcome # "error"
      ]_vars

\* relay's recovery branch is for user u at this moment
AutoBanned(u) == ~users[u].whitelisted /\ u # ADMIN_ID /\ users[u].auto_banned

\* what the recovery branch tells the sender when the sum of the old count and
\* the items is sum
ToldRecovery(e, sum) ==
    IF sum >= ACTIVATION THEN e.outcome = "reactivated"
    ELSE e.outcome = "progress" /\ e.remaining = ACTIVATION - sum

\* the step of this behaviour counts k media items of auto-banned user u, and
\* e is the thread that counted, after the step; stored(sum) is the count the
\* claim expects in the row
RecoveryCounted(u, k, e, stored(_)) ==
    LET sum == users[u].media_count + k IN
    /\ users'[u].media_count = stored(sum)
    /\ users'[u].auto_banned = (sum < ACTIVATION)
    /\ \A v \in DOMAIN users \ {u} : users'[v] = users[v]
    /\ ToldRecovery(e, sum)
    /\ UNCHANGED broadcast_queue

RecoverySteps(stored(_)) ==
    /\ \A t \in Threads :
          LET h == handlers[t]
              u == h.msg.user
              moved == handlers'[t] # h
          IN  /\ (variant = "gog" /\ h.pc = "row" /\ moved /\ AutoBanned(u) /\ IsMedia(h.msg))
                 => /\ handlers'[t].kind = "recovery"
                    /\ handlers'[t].pc = IF SinglePhoto(h.msg) THEN "count_media"
                                                              ELSE "append"
                    /\ UNCHANGED << users, broadcast_queue >>
              /\ ( /\ variant = "gog" /\ h.pc = "count_media" /\ moved
                   /\ h.kind = "recovery" /\ AutoBanned(u) )
                 => /\ RecoveryCounted(u, 1, handlers'[t], stored)
                    /\ handlers'[t].pc = "done"
    /\ \A f \in flushers :
          (f.kind = "recovery" /\ Ends(f) /\ AutoBanned(f.user))
          => RecoveryCounted(f.user, Len(f.album), EndOf(f), stored)

AsAdded(sum) == sum

AtMostThreshold(sum) == IF sum >= ACTIVATION THEN ACTIVATION ELSE sum

\* C15 as stated: in gog.py media of an auto-banned user (not whitelisted, not
\* the moderator) goes to the recovery branch, which adds the number of items
\* (1, or the album's size at the flush) to media_count; at 12 or more the
\* auto-ban is cleared and "reactivated" is told, below 12 the user stays
\* auto-banned and is told the remaining 12 - count.
C15_RecoveryAddsItems == [][ RecoverySteps(AsAdded) ]_vars

\* C15 amended: the same, but when the sum is 12 or more the count that is
\* stored is exactly 12.
C15_RecoveryAddsItemsUpTo12 == [][ RecoverySteps(AtMostThreshold) ]_vars

\* an auto-banned user at 10 sent two photos: after the first the user was
\* still auto-banned and told "1 left", after the second reactivated
C15_Witness ==
    \E t1, t2 \in Threads :
        /\ handlers[t1].outcome = "progress" /\ handlers[t1].remaining = 1
        /\ handlers[t2].outcome = "reactivated"
        /\ handlers[t1].msg.user = handlers[t2].msg.user
        /\ users[handlers[t1].msg.user].media_count = ACTIVATION
        /\ ~users[handlers[t1].msg.user].auto_banned
        /\ broadcast_queue = <<>>

\* C16: in gog.py an auto-ban that the sweep has set is cleared only after the
\* user has sent 12 media items while auto-banned.  Stated for behaviours that
\* start with nobody auto-banned: every auto-ban was set by the sweep in this
\* behaviour, and the messages handled so far, of every kind and sender, are
\* at least as many as the media the user sent while auto-banned.
C16_TwelveMediaToRecover ==
    [][ \A u \in DOMAIN users :
          (variant = "gog" /\ users[u].auto_banned /\ ~users'[u].auto_banned)
          => received >= ACTIVATION ]_vars

\* C17: in gog.py a text of a user who is not yet activated or is auto-banned
\* (not whitelisted, not the moderator) is answered with the pending notice,
\* or the inactive notice for an auto-banned user, and relay returns: no user
\* row, buffer, timer, record or queue changes, and the text is never
\* enqueued.
C17_TextNoticeOnly ==
    [][ \A t \in Threads :
          LET h == handlers[t]
              u == h.msg.user
          IN  /\ ( /\ variant = "gog" /\ h.pc = "row" /\ handlers'[t] # h
                   /\ h.msg.content_type = "text"
                   /\ (Pending(u) \/ AutoBanned(u)) )
                 => /\ handlers'[t].pc = "done"
                    /\ handlers'[t].outcome = IF Pending(u) THEN "pending" ELSE "inactive"
                    /\ UNCHANGED << users, broadcast_queue, media_groups, album_timers,
                                    flushers, message_map, activated_sent >>
              /\ handlers'[t].outcome \in {"pending", "inactive"}
                 => handlers'[t].msg \notin (QueuedMsgs \cup BufferedMsgs \cup PoppedMsgs)'
      ]_vars

\* an auto-banned user with a count of 12 and an old last_media sent a text
\* and got the inactive notice; the row is as it was
C17_Witness ==
    \E t \in Threads :
        LET u == handlers[t].msg.user IN
        /\ handlers[t].outcome = "inactive"
        /\ handlers[t].msg.content_type = "text"
        /\ users[u].auto_banned
        /\ users[u].media_count = ACTIVATION
        /\ users[u].last_media = 0
        /\ broadcast_queue = <<>>

\* ... and a user at 11 sent a text and got the pending notice
C17_WitnessPending ==
    \E t \in Threads :
        LET u == handlers[t].msg.user IN
        /\ handlers[t].outcome = "pending"
        /\ handlers[t].msg.content_type = "text"
        /\ ~users[u].auto_banned
        /\ users[u].media_count = ACTIVATION - 1
        /\ broadcast_queue = <<>>

\* C18: in gog.py, when the invocation for an admitted message (it is past
\* the ban, activation, auto-ban, shadow and word-filter checks) has run the
\* bookkeeping of lines 886-891, the sweep and the media tracking, the
\* sender's last_media is the current time, for a text as for media.
C18_AdmittedRefreshesLastActive ==
    [][ \A t \in Threads :
          LET h == handlers[t] IN
          ( /\ variant = "gog"
            /\ h.pc \in {"sweep", "track"}
            /\ handlers'[t] # h
            /\ handlers'[t].pc # "track" )
          => users'[h.msg.user].last_media = now
      ]_vars

\* C19: in gog.py, right after check_inactive_users has run at time t, every
\* user with a last_media older than t - 60 who is not manually banned, not
\* whitelisted and not the moderator is auto-banned, and the row of every
\* manually banned user is as it was before the sweep.
C19_SweepMarksInactive ==
    [][ \A t \in Threads :
          (variant = "gog" /\ handlers[t].pc = "sweep" /\ handlers'[t] # handlers[t])
          => \A u \in DOMAIN users :
                /\ ( /\ users[u].last_media # NULL
                     /\ users[u].last_media < now - WINDOW
                     /\ ~users[u].banned
                     /\ ~users[u].whitelisted
                     /\ u # ADMIN_ID )
                   => users'[u].auto_banned
                /\ users[u].banned => users'[u] = users[u]
      ]_vars

\* the sweep has just run: it auto-banned a user with an old last_media and
\* left alone a manually banned user with an old last_media
C19_Witness ==
    /\ variant = "gog"
    /\ \E t \in Threads : handlers[t].pc \in {"track", "put"}
    /\ \E u \in DOMAIN users :
          /\ users[u].banned /\ ~users[u].auto_banned
          /\ users[u].last_media # NULL /\ users[u].last_media < now - WINDOW
    /\ \E v \in DOMAIN users :
          /\ ~users[v].banned /\ users[v].auto_banned
          /\ users[v].last_media # NULL /\ users[v].last_media < now - WINDOW

\* the users a send of the worker's job was attempted to
AttemptedTo == { a[1] : a \in worker.attempted }

\* C20: the users to whom a send of a job is attempted are, when the job has
\* finished, exactly the users who are not manually banned and not
\* auto-banned, the origin excepted: a shadow-banned user is among them;
\* and at no time is a send attempted, or still to be made, to the origin.
\* (Nothing changes the users table while the worker fans out here.)
C20_Recipients ==
    LET origin == worker.job.messages[1].user
        eligible == { u \in DOMAIN users : ~users[u].banned /\ ~users[u].auto_banned }
    IN  worker.job # NoJob
        => /\ origin \notin AttemptedTo
           /\ \A i \in 1..Len(worker.todo) : worker.todo[i].to # origin
           /\ AttemptedTo \subseteq eligible
           /\ worker.pc = "idle" => AttemptedTo = eligible \ {origin}

\* a job of an eligible origin has finished: the sends went to the moderator
\* and to a shadow-banned user, none to the origin
C20_Witness ==
    LET origin == worker.job.messages[1].user IN
    /\ worker.pc = "idle"
    /\ worker.job # NoJob
    /\ ~users[origin].banned /\ ~users[origin].auto_banned
    /\ origin \notin AttemptedTo
    /\ \E u \in AttemptedTo : users[u].shadow_banned
    /\ Cardinality(AttemptedTo) = 2

\* the worker threads that are inside _process_single / _process_album
FanningOut == { th \in DOMAIN workers : workers[th].pc \in {"start", "send"} }

\* C21: at every moment at most one worker thread is inside a fan-out, and a
\* job is taken from the queue only when no fan-out is in flight: the fan-out
\* of the job taken before has returned.  The two handler threads and the
\* album timers put jobs at any time in between.
C21_OneFanout ==
    [][ /\ Cardinality(FanningOut') <= 1
        /\ (history'.got # history.got) => FanningOut = {}
      ]_vars

\* a fan-out is half done, a job waits behind it and a handler is about to put
\* one more
C21_Witness ==
    /\ worker.pc = "send"
    /\ worker.attempted # {}
    /\ \E t \in Threads : handlers[t].pc = "put"

\* C22: jobs are fanned out in the order they were put.  The jobs taken are the
\* first jobs put, in that order, the queue holds the rest, and the log of sends
\* (one entry per recipient and chunk, failed or not) never goes back to an
\* earlier job: every send of a job comes before every send of a job put later.
C22_FifoFanout ==
    /\ history.got \o broadcast_queue = history.put
    /\ \A i, j \in 1..Len(history.sent) :
          i < j => history.sent[i].job <= history.sent[j].job
    /\ \A i \in 1..Len(history.sent) : history.sent[i].job \in 1..Len(history.got)

\* an album and then a text were put and both were sent to their recipients
C22_Witness ==
    /\ Len(history.put) = 2
    /\ history.put[1].type = "album"
    /\ history.put[2].type = "single"
    /\ history.done = 2
    /\ \E i, j \in 1..Len(history.sent) :
          history.sent[i].job = 1 /\ history.sent[j].job = 2

\* C23: every job put on the queue is taken and fanned out exactly once.
\* Never twice, never lost: the jobs taken and the jobs waiting are exactly the
\* jobs put.  Never dropped: a job taken is finished or is being fanned out.
\* Eventually processed: with the worker thread scheduled fairly, the jobs
\* finished catch up with the jobs put.
C23_ExactlyOnce ==
    /\ [](history.got \o broadcast_queue = history.put)
    /\ [](Len(history.got) = history.done + Cardinality(FanningOut))
    /\ []<>(history.done = Len(history.put))

\* the users the inactivity sweep would mark if it ran now
SweepWouldMark ==
    { u \in DOMAIN users :
        /\ ~users[u].auto_banned
        /\ (IF variant = "gog" THEN check_inactive_users(users, now)
                               ELSE check_inactive_users_bot(users, now))[u].auto_banned }

\* C24: the step in which relay handles a message of a manually banned sender
\* changes nothing but the invocation itself, which has returned when the step
\* is over: the users table (every field of every user), the banned words, the
\* delivery records, the buffers, the timers and their threads, the queue, the
\* worker, the clock and the registration state are as before; no later step of
\* the invocation exists, so the inactivity sweep is not run.  Both variants.
C24_BannedChangesNothing ==
    [][ \A t \in Threads :
          (Begun(t) /\ is_banned(users, handlers'[t].msg.user))
          => /\ handlers'[t].pc = "done"
             /\ \A x \in Threads \ {t} : handlers'[x] = handlers[x]
             /\ UNCHANGED << now, users, banned_words, message_map, media_groups,
                             album_timers, flushers, broadcast_queue, workers,
                             next_sent, activated_sent, settings, waiting_username,
                             history >>
      ]_vars

\* a banned sender was turned away at a moment when the sweep, had it run,
\* would have marked some user inactive
C24_Witness ==
    \E t \in Threads :
        /\ handlers[t].outcome = "banned"
        /\ is_banned(users, handlers[t].msg.user)
        /\ handlers[t].msg.id = received
        /\ SweepWouldMark # {}

\* C25: in gog.py no message is left in the buffer without a flush to come.
\* Whenever media_groups holds messages of a media_group_id, a timer thread of
\* that id has still to pop the buffer, or an invocation that has appended to
\* it has still to look at album_timers (and arm a timer if there is none).
C25_BufferedHasFlush ==
    variant = "gog"
    => \A g \in Gids :
          media_groups[g] # <<>>
          => \/ \E f \in flushers : f.gid = g /\ f.pc = "sleep"
             \/ \E t \in Threads : /\ handlers[t].msg.media_group_id = g
                                   /\ handlers[t].pc \in {"timer_check", "arm"}

\* message `id` has passed every check and is about to be appended to the
\* buffer of its media_group_id, of which an Album job is already in the queue
\* and no timer thread is left running: the earlier batch has been flushed
LateArrival(id) ==
    \E t \in Threads :
        /\ handlers[t].msg.id = id
        /\ handlers[t].pc = "append"
        /\ AlbumJobsOf(handlers[t].msg.media_group_id) # {}
        /\ \A f \in flushers : f.gid = handlers[t].msg.media_group_id => f.pc = "done"

InAlbumJob(id) ==
    \E i \in 1..Len(broadcast_queue) :
        /\ broadcast_queue[i].type = "album"
        /\ \E k \in 1..Len(broadcast_queue[i].messages) :
              broadcast_queue[i].messages[k].id = id

\* C26: in gog.py a message admitted after the batch of its media_group_id has
\* been flushed ends up in an Album job of its own batch: a job already in the
\* queue is never changed, and, every thread being scheduled, the message is
\* eventually in a job put after its arrival.
C26_LateArrivalOwnJob ==
    /\ [][ \A i \in 1..Len(broadcast_queue) :
              /\ i <= Len(broadcast_queue')
              /\ broadcast_queue'[i] = broadcast_queue[i] ]_vars
    /\ \A id \in 1..(MaxMsgs + 1) :
          [](LateArrival(id) => ~InAlbumJob(id))
    /\ \A id \in 1..(MaxMsgs + 1) :
          LateArrival(id) ~> InAlbumJob(id)

\* the users whose record is created by the step
Created == DOMAIN users' \ DOMAIN users

\* the step is one of a /start handler of user u
StepOfStart(u) ==
    \E t \in Threads :
        /\ handlers[t].msg.user = u
        /\ extract_command(handlers[t].msg.text) = Commands.start
        /\ handlers'[t] # handlers[t]

JoinOpen == settings["join_open"] = "true"

\* C28 as stated: a user record is created only by a step of /start of that
\* user, who had no record, and only in a state in which join_open is true; no
\* step removes a user record.
C28_CreatedOnlyWhileOpen ==
    [][ /\ DOMAIN users \subseteq DOMAIN users'
        /\ \A u \in Created : StepOfStart(u) /\ JoinOpen
      ]_vars

\* C28 as the code has it: a user record is created only by the add_user step
\* of a /start handler of that user, who had no record when the handler looked
\* and whose handler has read join_open as true; a /start handler that reads
\* join_open as false returns without creating anything; no step removes a
\* user record.
C28_CreatedOnlyByOpenStart ==
    [][ /\ DOMAIN users \subseteq DOMAIN users'
        /\ \A u \in Created :
              /\ StepOfStart(u)
              /\ \E t \in Threads : handlers[t].msg.user = u /\ handlers[t].pc = "add"
        /\ \A t \in Threads :
              (handlers[t].pc = "join" /\ handlers'[t] # handlers[t])
              => IF JoinOpen
                 THEN handlers'[t].pc = "add"
                 ELSE /\ handlers'[t].pc = "done"
                      /\ handlers'[t].outcome = "closed"
                      /\ users' = users
        /\ \A t \in Threads :
              (handlers'[t].pc = "add" /\ handlers'[t] # handlers[t])
              => handlers[t].pc = "join"
      ]_vars

\* user 3, unknown at the start, has got a record and is asked for a username,
\* and a later /start of an unknown user was turned away because joining is
\* closed
C28_Witness ==
    /\ 3 \in DOMAIN users
    /\ 3 \in waiting_username
    /\ 2 \notin DOMAIN users
    /\ ~JoinOpen
    /\ \E t \in Threads : handlers[t].outcome = "closed" /\ handlers[t].msg.user = 2

\* the users that have a username
Named == { u \in DOMAIN users : users[u].username # NoName }

\* C30: every stored username is in lower case and has at least 3 characters,
\* and no two users hold the same username, compared without regard to case.
C30_HandlesUnique ==
    /\ \A u \in Named : /\ users[u].username = lower(users[u].username)
                        /\ Len(users[u].username) >= 3
    /\ \A u, v \in Named :
          u # v => lower(users[u].username) # lower(users[v].username)

\* users 2 and 3 submitted the same name in different spelling at the same
\* time: both handlers found it free, one stored it, the other's UPDATE raised
C30_Witness ==
    \E t1, t2 \in Threads :
        /\ handlers[t1].outcome = "error"
        /\ handlers[t2].outcome = "named"
        /\ handlers[t1].msg.text # handlers[t2].msg.text
        /\ submitted(handlers[t1].msg) = submitted(handlers[t2].msg)
        /\ users[handlers[t2].msg.user].username = submitted(handlers[t2].msg)
        /\ users[handlers[t1].msg.user].username = NoName

\* C27: delivery records only accumulate.  Every step leaves every record that
\* exists as it is, origin and recipient included, and removes none: the sends
\* of the worker (also a send whose outbound message id has a record already),
\* /ban, /unban, /shadow, /purge, /del and every other command.
C27_RecordsAccumulate ==
    [][ /\ message_map \subseteq message_map'
        /\ \A r \in message_map' \ message_map :
              \A x \in message_map : x.bot_message_id # r.bot_message_id
      ]_vars

\* the worker has sent a message that the transport numbered 1, the id of the
\* record of the earlier run, and a second one that got a record; the
\* moderator has banned the origin of the old record and purged its messages
C27_Witness ==
    /\ worker.delivered = { <<1, 1>>, <<3, 1>> }
    /\ message_map = { [ bot_message_id |-> 1, original_user_id |-> 2, receiver_id |-> 3 ],
                       [ bot_message_id |-> 2, original_user_id |-> 2, receiver_id |-> 3 ] }
    /\ users[2].banned
    /\ \E t \in Threads : handlers[t].outcome = "purged" /\ handlers[t].remaining >= 1

\* the moderator's commands and the buttons of the panel
IsAdminCommand(m) ==
    \/ m.content_type = "callback"
    \/ /\ m.content_type = "text"
       /\ extract_command(m.text) \in
             { Commands.ban, Commands.unban, Commands.shadow, Commands.addword,
               Commands.removeword, Commands.openjoin, Commands.closejoin,
               Commands.purge, Commands.del }

\* C29: a step taken for a moderator's command or a panel callback that was
\* sent by someone other than the moderator changes no state: the users, the
\* banned words, the delivery records, the settings, the set of users asked for
\* a username, the buffers and the queue stay as they are.  join_open is true
\* when init_db creates it and changes only in a step taken for a command or
\* callback of the moderator.
C29_CommandsOfOthersChangeNothing ==
    [][ /\ \A t \in Threads :
              ( /\ handlers'[t] # handlers[t]
                /\ IsAdminCommand(handlers'[t].msg)
                /\ handlers'[t].msg.user # ADMIN_ID )
              => UNCHANGED << users, banned_words, message_map, settings,
                              waiting_username, media_groups, album_timers,
                              broadcast_queue >>
        /\ init_db(NoSettings)["join_open"] = "true"
        /\ settings' # settings
           => \E t \in Threads : /\ handlers'[t] # handlers[t]
                                 /\ IsAdminCommand(handlers'[t].msg)
                                 /\ handlers'[t].msg.user = ADMIN_ID
      ]_vars

\* what holds of C29: a command of someone else that reaches the handler of
\* the command is answered by nothing, and join_open changes only in a step of
\* close_join, open_join or callback_handler taken for the moderator
C29_DeniedByCommandHandler ==
    [][ /\ \A t \in Threads :
              ( /\ handlers'[t] # handlers[t]
                /\ IsAdminCommand(handlers'[t].msg)
                /\ handlers'[t].msg.user # ADMIN_ID
                /\ handlers'[t].msg.user \notin waiting_username
                /\ handlers[t].pc \in {"idle", "done"} )
              => /\ handlers'[t].outcome = "denied"
                 /\ UNCHANGED << users, banned_words, message_map, settings,
                                 waiting_username, media_groups, album_timers,
                                 broadcast_queue >>
        /\ settings' # settings
           => \E t \in Threads : /\ handlers'[t] # handlers[t]
                                 /\ handlers'[t].msg.user = ADMIN_ID
                                 /\ handlers'[t].outcome \in {"join_opened", "join_closed"}
      ]_vars

\* C31: in gog.py no step of relay, of an album flush, of the inactivity sweep
\* or of a moderator command lowers the media_count of a user whose count is
\* below 12 (and no step removes the user's row).
C31_CountNeverDecreasesBelowThreshold ==
    [][ \A u \in DOMAIN users :
          (variant = "gog" /\ users[u].media_count < ACTIVATION)
          => /\ u \in DOMAIN users'
             /\ users'[u].media_count >= users[u].media_count ]_vars

\* an auto-banned user below 12 has sent a photo, which was counted ("1 left"),
\* and was then banned by the moderator: the count is 11
C31_Witness ==
    /\ variant = "gog"
    /\ users[2].media_count = ACTIVATION - 1
    /\ users[2].auto_banned
    /\ users[2].banned
    /\ \E t \in Threads :
          /\ handlers[t].msg.user = 2
          /\ handlers[t].outcome = "progress"
          /\ handlers[t].remaining = 1

\* C36: in gog.py a media_count of 12 or more never becomes less than 12; the
\* only step that lowers a count is the reactivation, which clears the auto-ban
\* and stores exactly 12; and relay's activation check never takes a user whose
\* count it reads as 12 or more into the initial-activation branch.
C36_ActivatedStaysActivated ==
    [][ /\ \A u \in DOMAIN users :
              variant = "gog"
              => /\ u \in DOMAIN users'
                 /\ users[u].media_count >= ACTIVATION
                    => users'[u].media_count >= ACTIVATION
                 /\ users'[u].media_count < users[u].media_count
                    => /\ users[u].auto_banned
                       /\ ~users'[u].auto_banned
                       /\ users'[u].media_count = ACTIVATION
                 /\ (users[u].auto_banned /\ ~users'[u].auto_banned)
                    => users'[u].media_count = ACTIVATION
        /\ \A t \in Threads :
              LET h == handlers[t]
                  u == h.msg.user
              IN  ( /\ variant = "gog" /\ h.pc = "row" /\ handlers'[t] # h
                    /\ user_exists(users, u)
                    /\ users[u].media_count >= ACTIVATION )
                  => /\ handlers'[t].kind # "activation"
                     /\ handlers'[t].outcome # "pending"
      ]_vars

\* an auto-banned user with a count above 12 sent a photo: reactivated, the
\* count is 12, and the next message of the user went past the activation check
C36_Witness ==
    /\ variant = "gog"
    /\ users[2].media_count = ACTIVATION
    /\ ~users[2].auto_banned
    /\ \E t1, t2 \in Threads :
          /\ handlers[t1].msg.user = 2 /\ handlers[t1].outcome = "reactivated"
          /\ handlers[t2].msg.user = 2 /\ handlers[t2].msg.id > handlers[t1].msg.id
          /\ handlers[t2].pc \in {"shadow", "filter", "sweep", "put"}

\* the sender relay lets through: activated, not banned in any way, and
\* neither whitelisted nor the moderator
ActiveSender(u) ==
    /\ user_exists(users, u)
    /\ users[u].media_count >= ACTIVATION
    /\ ~users[u].banned /\ ~users[u].auto_banned /\ ~users[u].shadow_banned
    /\ ~users[u].whitelisted
    /\ u # ADMIN_ID

\* C32: in gog.py the invocation of relay for a single photo or video (no
\* media_group_id) of an active sender goes from the activation check, which
\* reads the sender as active, on to the shadow check, and from there it ends in
\* one way only: by putting one Single job with that message at the end of the
\* queue.  (The sender is as described at every step of the invocation.)
C32_SinglePhotoEnqueued ==
    [][ \A t \in Threads :
          LET h == handlers[t]
              e == handlers'[t]
          IN
          ( /\ variant = "gog"
            /\ e # h
            /\ h.pc \in {"row", "shadow", "sweep", "track", "put"}
            /\ SinglePhoto(h.msg)
            /\ ActiveSender(h.msg.user) )
          => /\ h.pc = "row" => e.pc = "shadow"
             /\ e.pc = "done"
                => /\ e.outcome = "enqueued"
                   /\ broadcast_queue' = Append(broadcast_queue, Single(h.msg))
      ]_vars

\* C33: in bot.py the invocation of relay for a photo or video of a sender who
\* is not manually banned and not shadow-banned adds exactly 1 to the sender's
\* media_count, all its steps taken together: the step that recovers an
\* auto-banned sender adds 1, and the media tracking adds 1 unless this
\* invocation has already counted the message when it recovered the sender.
C33_MediaCountsOnce ==
    [][ \A t \in Threads :
          LET h == handlers[t]
              u == h.msg.user
              added == users'[u].media_count - users[u].media_count
          IN
          ( /\ variant = "bot"
            /\ handlers'[t] # h
            /\ h.pc \in {"auto", "recover", "shadow", "sweep", "track", "append",
                         "len_check", "sleep", "put_album", "put"}
            /\ IsMedia(h.msg)
            /\ user_exists(users, u)
            /\ ~users[u].banned /\ ~users[u].shadow_banned )
          => added = IF h.pc = "recover" THEN 1
                     ELSE IF h.pc = "track" /\ h.outcome # "reactivated" THEN 1
                     ELSE 0
      ]_vars

\* the step puts a job at the end of the queue
Enqueued == Len(broadcast_queue') > Len(broadcast_queue)

LastJob(q) == q[Len(q)]

\* C34: a job is put on the queue only for a sender who has a row in the users
\* table at that moment, whether joining is open or closed.
C34_EnqueuedOnlyForKnownSender ==
    [][ Enqueued => user_exists(users, Origin(LastJob(broadcast_queue'))) ]_vars

\* C35: at the step that puts a job on the queue, the job's origin user is not
\* manually banned, not auto-banned and not shadow-banned in the users table.
C35_EnqueuedOriginNotBanned ==
    [][ Enqueued
        => LET u == Origin(LastJob(broadcast_queue')) IN
           user_exists(users, u)
           => /\ ~users[u].banned
              /\ ~users[u].auto_banned
              /\ ~users[u].shadow_banned
      ]_vars

\* C37: a username that is stored for a user is not changed and not cleared by
\* any later step.
C37_HandleNeverChanges ==
    [][ \A u \in DOMAIN users :
          users[u].username # NoName
          => /\ u \in DOMAIN users'
             /\ users'[u].username = users[u].username ]_vars

\* the handler of thread t has just answered /purge or /del with a count
Removed(t) ==
    /\ handlers'[t] # handlers[t]
    /\ handlers'[t].pc = "done"
    /\ handlers'[t].outcome \in {"purged", "deleted"}

\* what message_map has on record for origin user u: (message id, chat)
DeliveredOf(u) ==
    { <<r.bot_message_id, r.receiver_id>> : r \in { x \in message_map : x.original_user_id = u } }

\* C38: /purge and /del, given by the moderator as a reply to a tracked
\* message, do the same: each asks the transport once to delete every message on
\* record for the origin user of the replied-to message, answers with the number
\* of deletions that did not fail, and leaves message_map and the users table as
\* they are; and neither answers with a count in any other case.
C38_PurgeAndDelAlike ==
    [][ \A t \in Threads :
          LET e == handlers'[t]
              u == get_original_user(message_map, e.msg.reply_to)
              calls == LastJob(history'.deleted)
          IN
          /\ Removed(t)
             => /\ is_admin(e.msg.user)
                /\ e.msg.reply_to # 0 /\ u # 0
                /\ history'.deleted = Append(history.deleted, calls)
                /\ calls.tried = DeliveredOf(u)
                /\ calls.ok \subseteq calls.tried
                /\ e.remaining = Cardinality(calls.ok)
                /\ UNCHANGED << message_map, users, banned_words, settings >>
          /\ ( /\ Begun(t)
               /\ e.msg.content_type = "text"
               /\ extract_command(e.msg.text) \in {Commands.purge, Commands.del}
               /\ handler_for(waiting_username, e.msg) \in {"purge", "del"}
               /\ is_admin(e.msg.user)
               /\ u # 0 )
             => /\ Removed(t)
                /\ e.outcome = IF handler_for(waiting_username, e.msg) = "purge"
                               THEN "purged" ELSE "deleted"
      ]_vars

\* two deliveries are on record for user 2; the moderator has given two of the
\* commands as replies to message 1 and the second was /del: each command
\* asked for both deletions, one of the first command's failed, and /del
\* answered that it deleted 2
C38_Witness ==
    /\ Cardinality(DeliveredOf(2)) = 2
    /\ Len(history.deleted) = 2
    /\ history.deleted[1].tried = DeliveredOf(2)
    /\ history.deleted[2].tried = DeliveredOf(2)
    /\ Cardinality(history.deleted[1].ok) = 1
    /\ \E t \in Threads :
          /\ handlers[t].outcome = "deleted" /\ handlers[t].msg.id = 2
          /\ handlers[t].remaining = 2

====
